---- MODULE Spec2Model ----
(***************************************************************************)
(* Model of the task-logger hook scripts: the FileLock of config.py, the   *)
(* lock-guarded operations built on it, the index writer of                *)
(* transcript-analyzer.py and the index reader of session-summary.py.      *)
(*                                                                         *)
(* Every OS process of the program is one element of a process set; the    *)
(* only state the processes share is the file system (lock files, the      *)
(* quarantine ".stale" files, index.jsonl).  One action is one system call *)
(* (or one local step between two system calls) of one process.            *)
(*                                                                         *)
(* Time is kept as ages, in seconds: the age of a lock file                *)
(* (time.time() - st_mtime) and the time a process has spent in acquire    *)
(* (time.time() - start_time).  An age stops growing one second past the   *)
(* threshold it is compared with, which leaves every comparison exact.     *)
(*                                                                         *)
(* Further parts, each with a specification of its own, model the entry    *)
(* points of the three scripts with the session cache (SpecHooks), the     *)
(* path check before a transcript or a log is opened (SpecPaths), the way  *)
(* of the free texts into the files and their redaction (SpecRender,       *)
(* SpecRedact), the extraction of the execution steps (SpecSteps), the     *)
(* final response of a list of steps (SpecFinal), the sanitized name of a  *)
(* subagent (SpecSanitize), the analyzer's run on a transcript of some     *)
(* size (SpecAnalysis), the readers of the line-delimited files            *)
(* (SpecReaders), two start handlers on the session cache (SpecCache) and  *)
(* parse_transcript on files of about MAX_EVENTS lines (SpecParse).  A     *)
(* specification leaves the variables of the other parts at rest.          *)
(***************************************************************************)
EXTENDS Integers, Sequences, FiniteSets, TLC

(***************************************************************************)
(* Program constants                                                       *)
(***************************************************************************)
STALE_LOCK_TIMEOUT_SEC == 60

\* FileLock timeouts, in seconds, as passed by the callers.
CACHE_LOCK_TIMEOUT == 5
PROMPTS_LOCK_TIMEOUT == 5
INDEX_WRITE_LOCK_TIMEOUT == 10
INDEX_READ_LOCK_TIMEOUT == 5
DEFAULT_LOCK_TIMEOUT == 10

\* load_session_entries(max_retries=3)
max_retries == 3

(***************************************************************************)
(* Bounds of the model                                                     *)
(***************************************************************************)
\* How many processes may be killed (SIGKILL, power loss) in one behaviour.
MaxKills == 1
\* The same, where the recovery of stale lock files is checked.
MaxRecoverKills == 3
\* How many times a direct user of FileLock calls release() on one handle.
MaxReleases == 2

\* The session ids of the inputs.
Sessions == {"s1", "s2"}

\* The session a reader asks for; the session ids are interchangeable.
ReaderSessions == {"s1"}

\* The amounts of time, in seconds, that may pass between two steps.
TickSteps == {5, 60}

\* The same for the event store, whose three processes are followed with a
\* coarser clock.
StoreTickSteps == {60}

(***************************************************************************)
(* Processes, lock paths, operations                                       *)
(***************************************************************************)
\* Process slots.  A slot holds one OS process at a time; when its process is
\* killed the slot is free for a new process.
\* Processes that run one lock-guarded operation each.
Clients == {"c1", "c2"}

\* transcript-analyzer.py processes and session-summary.py processes.
Writers == {"w1", "w2"}
Readers == {"r1"}

Procs == Clients \cup Writers \cup Readers

\* sys.platform: "posix" stands for every platform other than win32.
Platforms == {"posix", "win32"}

\* The three lock files of the program: sessions.lock, user_prompts.jsonl.lock
\* and index.jsonl.lock.
Paths == {"cache", "prompts", "index"}

\* The lock-guarded operations, and "api": a direct user of FileLock that
\* calls acquire() and then release(), possibly more than once.
Ops == {"cache_load", "cache_save", "prompt_append", "index_append", "index_read", "api"}

OpPath(op) ==
  CASE op = "cache_load" -> "cache"
    [] op = "cache_save" -> "cache"
    [] op = "prompt_append" -> "prompts"
    [] op = "index_append" -> "index"
    [] op = "index_read" -> "index"
    [] op = "api" -> "index"
    [] OTHER -> "nopath"

OpTimeout(op) ==
  CASE op = "cache_load" -> CACHE_LOCK_TIMEOUT
    [] op = "cache_save" -> CACHE_LOCK_TIMEOUT
    [] op = "prompt_append" -> PROMPTS_LOCK_TIMEOUT
    [] op = "index_append" -> INDEX_WRITE_LOCK_TIMEOUT
    [] op = "index_read" -> INDEX_READ_LOCK_TIMEOUT
    [] OTHER -> DEFAULT_LOCK_TIMEOUT

\* The exceptions the body of each with-block can raise.
BodyErrors(op) ==
  CASE op = "cache_load" -> {"JSONDecodeError", "OSError"}
    [] op = "api" -> {}
    [] OTHER -> {"OSError"}

Min(a, b) == IF a < b THEN a ELSE b

VARIABLES
  platform,    \* sys.platform of the machine
  lock,        \* lock[path]: the lock file at path
  quarantine,  \* quarantine[path]: the ".stale" file a stale lock file was renamed to
  pc,          \* pc[p]: where process p is
  op,          \* op[p]: the operation process p runs
  fd,          \* fd[p]: self._lock_file is not None
  elapsed,     \* elapsed[p]: time.time() - start_time inside acquire
  exc,         \* exc[p]: the exception travelling through p's with-block
  releases,    \* releases[p]: completed calls of release() by a direct user p
  relRaised,   \* relRaised[p]: a call of release() let an exception escape
  kills,       \* processes killed so far
  acqOrder,    \* the index writers, in the order in which acquire() returned
  indexExists, \* index.jsonl exists
  index,       \* the lines of index.jsonl
  sess,        \* sess[p]: the session id of process p's input
  attempt,     \* attempt[p]: the loop variable of load_session_entries
  last_count,  \* last_count[p] of load_session_entries
  entries,     \* entries[p] of load_session_entries
  appends      \* appends[p]: lines process p has written to index.jsonl

\* The index file and the local state of its writers and readers.
storeVars == <<indexExists, index, sess, attempt, last_count, entries, appends>>

\* The file lock, the processes that use it and the event store.
lockVars == <<platform, lock, quarantine, pc, op, fd, elapsed, exc, releases, relRaised, kills,
              acqOrder, storeVars>>

VARIABLES
  now,         \* datetime.now(), in hours
  cacheFile,   \* sessions.json: cache key -> the start_ts of the entry
  hpc,         \* hpc[h]: where the entry-point process h is
  hin,         \* hin[h]: the structured input and the environment of process h
  hcache,      \* hcache[h]: the local variable cache of a handler
  hout         \* hout[h]: what process h has done: exit code, warnings, ...

\* The entry points (the three scripts' main) and the session cache.
hookVars == <<now, cacheFile, hpc, hin, hcache, hout>>

VARIABLES
  pcall        \* the call under way of a function that checks a path before opening it

\* The functions that open a transcript or a log.
pathVars == <<pcall>>

VARIABLES
  piece,       \* a free text on its way from the input to a file
  rcall        \* a text and what redact_sensitive_data makes of it, once and twice

\* The texts that are written and the redaction.
textVars == <<piece, rcall>>

VARIABLES
  xcall        \* a call of extract_execution_steps: its events and its local variables

\* The extraction of the steps from a transcript.
stepVars == <<xcall>>

VARIABLES
  fcall,       \* a call of get_final_response: its steps and the position of its loop
  ncall,       \* a call of sanitize_filename: the name and what has become of it
  lcall,       \* a reader of a line-delimited file: the lines, its position, its result
  acall        \* a run of the analyzer on a transcript file of some size

\* The functions on steps and names, the line readers, the analyzer's run.
fnVars == <<fcall, ncall, lcall, acall>>

\* The state outside the file lock and the event store.
auxVars == <<hookVars, pathVars, textVars, stepVars, fnVars>>

\* What the entry points leave alone.
hookFrame == <<lockVars, pathVars, textVars, stepVars, fnVars>>

\* What the functions on steps and names, the readers and the analyzer's run
\* leave alone.
fnFrame == <<lockVars, hookVars, pathVars, textVars, stepVars>>

vars == <<lockVars, auxVars>>

NoFile == [exists |-> FALSE, owner |-> "none", age |-> 0, open |-> FALSE]

\* The file os.open(O_CREAT | O_EXCL | O_WRONLY) creates: the creator's pid is
\* written into it and the creator keeps the descriptor open.
NewFile(p) == [exists |-> TRUE, owner |-> p, age |-> 0, open |-> TRUE]

PathOf(p) == OpPath(op[p])
TimeoutOf(p) == OpTimeout(op[p])

\* The control points inside FileLock.acquire.
AcquirePcs == {"create", "sleep", "stat", "rename", "unlink_stale"}

\* Between the return of acquire and the call of release: the body of a
\* with-block, in the index writer and in the index reader.
HoldPcs == {"body", "w_open", "w_write", "r_open", "r_read"}

(***************************************************************************)
(* Where a process goes when it leaves FileLock                            *)
(***************************************************************************)
\* acquire() returned: the first statement of the with-block.
BodyPc(p) ==
  IF p \in Writers THEN "w_open" ELSE IF p \in Readers THEN "r_open" ELSE "body"

\* acquire() raised TimeoutError: __exit__ is not run, the caller's
\* except TimeoutError clause prints a warning.
TimedOutPc(p) ==
  IF p \in Writers THEN "done" ELSE IF p \in Readers THEN "r_after" ELSE "timed_out"

\* release() returned: a with-block is left (its exception, if any, goes to
\* the caller's except clause); a direct user may call release() again.
ReleasedPc(p) ==
  IF p \in Readers THEN "r_after" ELSE IF op[p] = "api" THEN "released" ELSE "done"

(***************************************************************************)
(* FileLock.acquire, config.py 285-326                                     *)
(***************************************************************************)
\* os.open(lock_path, O_CREAT | O_EXCL | O_WRONLY): atomic create-if-absent.
\* On FileExistsError the elapsed time decides between the staleness check
\* and the 10 ms sleep.
Create(p) ==
  /\ pc[p] = "create"
  /\ IF ~lock[PathOf(p)].exists
       THEN /\ lock' = [lock EXCEPT ![PathOf(p)] = NewFile(p)]
            /\ fd' = [fd EXCEPT ![p] = TRUE]
            /\ pc' = [pc EXCEPT ![p] = BodyPc(p)]
            /\ elapsed' = [elapsed EXCEPT ![p] = 0]
            /\ acqOrder' = IF p \in Writers THEN Append(acqOrder, p) ELSE acqOrder
       ELSE /\ pc' = [pc EXCEPT ![p] = IF elapsed[p] > TimeoutOf(p) THEN "stat" ELSE "sleep"]
            /\ UNCHANGED <<lock, fd, elapsed, acqOrder>>
  /\ UNCHANGED <<auxVars, platform, quarantine, op, exc, releases, relRaised, kills, storeVars>>

\* time.sleep(0.01), then the next creation attempt.
Sleep(p) ==
  /\ pc[p] = "sleep"
  /\ pc' = [pc EXCEPT ![p] = "create"]
  /\ UNCHANGED <<auxVars, platform, lock, quarantine, op, fd, elapsed, exc, releases, relRaised, kills, acqOrder, storeVars>>

\* The lock file is stale: time.time() - st_mtime > STALE_LOCK_TIMEOUT_SEC.
IsStale(f) == f.age > STALE_LOCK_TIMEOUT_SEC

\* self.lock_path.stat().st_mtime after the timeout has elapsed: a missing
\* file retries; a stale one is renamed; otherwise TimeoutError is raised.
Stat(p) ==
  /\ pc[p] = "stat"
  /\ IF ~lock[PathOf(p)].exists
       THEN pc' = [pc EXCEPT ![p] = "create"] /\ UNCHANGED exc
       ELSE IF IsStale(lock[PathOf(p)])
              THEN pc' = [pc EXCEPT ![p] = "rename"] /\ UNCHANGED exc
              ELSE /\ pc' = [pc EXCEPT ![p] = TimedOutPc(p)]
                   /\ exc' = [exc EXCEPT ![p] = "TimeoutError"]
  /\ UNCHANGED <<auxVars, platform, lock, quarantine, op, fd, elapsed, releases, relRaised, kills, acqOrder, storeVars>>

\* The exception os.rename(lock_path, stale_path) raises, or "none".
\* FileNotFoundError: the lock file is gone.  On win32 only: PermissionError
\* when the file is open in another process, FileExistsError when the
\* target exists; on the other platforms rename replaces the target.
RenameError(p) ==
  IF ~lock[PathOf(p)].exists THEN "FileNotFoundError"
  ELSE IF platform = "win32" /\ lock[PathOf(p)].open THEN "PermissionError"
  ELSE IF platform = "win32" /\ quarantine[PathOf(p)].exists THEN "FileExistsError"
  ELSE "none"

\* os.rename(lock_path, stale_path).  FileNotFoundError is passed over and
\* the loop continues; any other exception reaches "except Exception: pass"
\* and the TimeoutError after it.
Rename(p) ==
  /\ pc[p] = "rename"
  /\ IF RenameError(p) = "none"
       THEN /\ quarantine' = [quarantine EXCEPT ![PathOf(p)] = lock[PathOf(p)]]
            /\ lock' = [lock EXCEPT ![PathOf(p)] = NoFile]
            /\ pc' = [pc EXCEPT ![p] = "unlink_stale"]
            /\ UNCHANGED exc
       ELSE IF RenameError(p) = "FileNotFoundError"
              THEN /\ pc' = [pc EXCEPT ![p] = "create"]
                   /\ UNCHANGED <<lock, quarantine, exc>>
              ELSE /\ pc' = [pc EXCEPT ![p] = TimedOutPc(p)]
                   /\ exc' = [exc EXCEPT ![p] = "TimeoutError"]
                   /\ UNCHANGED <<lock, quarantine>>
  /\ UNCHANGED <<auxVars, platform, op, fd, elapsed, releases, relRaised, kills, acqOrder, storeVars>>

\* stale_path.unlink(missing_ok=True), then continue.
UnlinkStale(p) ==
  /\ pc[p] = "unlink_stale"
  /\ quarantine' = [quarantine EXCEPT ![PathOf(p)] = NoFile]
  /\ pc' = [pc EXCEPT ![p] = "create"]
  /\ UNCHANGED <<auxVars, platform, lock, op, fd, elapsed, exc, releases, relRaised, kills, acqOrder, storeVars>>

(***************************************************************************)
(* FileLock.release, config.py 328-348, and __exit__, config.py 281-283    *)
(***************************************************************************)
\* Mutant of Swallow: release() without its try / except around unlink.
Propagate(e) == e

\* What "except Exception: pass" lets through of the exception e.
Swallow(e) == "none"

\* The exception self.lock_path.unlink(missing_ok=True) raises, or "none":
\* a missing file is no error; on win32 a file that is open in another
\* process cannot be deleted.
UnlinkError(p) ==
  IF platform = "win32" /\ lock[PathOf(p)].exists /\ lock[PathOf(p)].open
    THEN "PermissionError"
    ELSE "none"

\* The file f after process p has closed its descriptor of it.
Closed(f, p) == IF f.exists /\ f.owner = p THEN [f EXCEPT !.open = FALSE] ELSE f

\* lock_file = self._lock_file; self._lock_file = None; os.close(lock_file).
ReleaseClose(p) ==
  /\ pc[p] = "rel_close"
  /\ fd' = [fd EXCEPT ![p] = FALSE]
  /\ lock' = [lock EXCEPT ![PathOf(p)] = IF fd[p] THEN Closed(@, p) ELSE @]
  /\ quarantine' = [quarantine EXCEPT ![PathOf(p)] = IF fd[p] THEN Closed(@, p) ELSE @]
  /\ pc' = [pc EXCEPT ![p] = "rel_unlink"]
  /\ UNCHANGED <<auxVars, platform, op, elapsed, exc, releases, relRaised, kills, acqOrder, storeVars>>

\* self.lock_path.unlink(missing_ok=True) inside try / except Exception: pass.
\* The file at lock_path is removed whoever created it.
ReleaseUnlink(p) ==
  /\ pc[p] = "rel_unlink"
  /\ lock' = [lock EXCEPT ![PathOf(p)] = IF UnlinkError(p) = "none" THEN NoFile ELSE @]
  /\ relRaised' = [relRaised EXCEPT ![p] = @ \/ Swallow(UnlinkError(p)) # "none"]
  /\ releases' = [releases EXCEPT ![p] = IF op[p] = "api" THEN @ + 1 ELSE @]
  /\ pc' = [pc EXCEPT ![p] = ReleasedPc(p)]
  /\ UNCHANGED <<auxVars, platform, quarantine, op, fd, elapsed, exc, kills, acqOrder, storeVars>>

\* A direct user of FileLock calls release() once more on the same handle.
ReleaseAgain(p) ==
  /\ pc[p] = "released"
  /\ releases[p] < MaxReleases
  /\ pc' = [pc EXCEPT ![p] = "rel_close"]
  /\ UNCHANGED <<auxVars, platform, lock, quarantine, op, fd, elapsed, exc, releases, relRaised, kills,
                 acqOrder, storeVars>>

(***************************************************************************)
(* The lock-guarded operations: with FileLock(path, timeout): body         *)
(***************************************************************************)
\* A process starts operation k: FileLock(...).__enter__ calls acquire(),
\* which notes start_time.  Lock files at different paths do not interact, so
\* the processes of one behaviour all work on the same path.
Begin(p, k) ==
  /\ pc[p] = "idle"
  /\ \A q \in Clients : op[q] # "none" => OpPath(op[q]) = OpPath(k)
  /\ \A path \in Paths : lock[path].exists \/ quarantine[path].exists => path = OpPath(k)
  /\ op' = [op EXCEPT ![p] = k]
  /\ pc' = [pc EXCEPT ![p] = "create"]
  /\ UNCHANGED <<auxVars, platform, lock, quarantine, fd, elapsed, exc, releases, relRaised, kills,
                 acqOrder, storeVars>>

\* Mutant of ExitReleases: release() only at the normal end of the block.
ExitReleasesNormalOnly(e) == e = "none"

\* Whether __exit__ calls release() when the block is left with exception e
\* ("none": left normally): it always does.
ExitReleases(e) == TRUE

\* The body of the with-block ends, normally or with one of its exceptions;
\* __exit__ runs release() and returns False, so the exception travels on to
\* the caller's except clauses.
Body(p) ==
  /\ pc[p] = "body"
  /\ \E e \in BodyErrors(op[p]) \cup {"none"} :
       /\ exc' = [exc EXCEPT ![p] = e]
       /\ pc' = [pc EXCEPT ![p] = IF ExitReleases(e) THEN "rel_close" ELSE ReleasedPc(p)]
  /\ UNCHANGED <<auxVars, platform, lock, quarantine, op, fd, elapsed, releases, relRaised, kills,
                 acqOrder, storeVars>>

(***************************************************************************)
(* The environment: time and kills                                         *)
(***************************************************************************)
\* A process that is running, i.e. one that can still take a step or be killed.
Running(p) ==
  pc[p] \notin {"absent", "idle", "done", "timed_out", "released", "returned"}

\* The file f once its creator p is dead: the descriptor is closed, and the
\* pid in the file names no process any more.
Orphaned(f, p) ==
  IF f.exists /\ f.owner = p THEN [f EXCEPT !.open = FALSE, !.owner = "dead"] ELSE f

\* Process p is killed (SIGKILL, power loss).  Its files stay; its
\* descriptors are closed.  The slot is free for a new process.
KillWithin(p, max) ==
  /\ Running(p)
  /\ kills < max
  /\ kills' = kills + 1
  /\ pc' = [pc EXCEPT ![p] = "idle"]
  /\ op' = [op EXCEPT ![p] = "none"]
  /\ fd' = [fd EXCEPT ![p] = FALSE]
  /\ elapsed' = [elapsed EXCEPT ![p] = 0]
  /\ exc' = [exc EXCEPT ![p] = "none"]
  /\ releases' = [releases EXCEPT ![p] = 0]
  /\ relRaised' = [relRaised EXCEPT ![p] = FALSE]
  /\ lock' = [lock EXCEPT ![PathOf(p)] = Orphaned(@, p)]
  /\ quarantine' = [quarantine EXCEPT ![PathOf(p)] = Orphaned(@, p)]
  /\ UNCHANGED <<auxVars, platform, acqOrder, storeVars>>

Kill(p) == KillWithin(p, MaxKills)

Aged(f, d) == IF f.exists THEN [f EXCEPT !.age = Min(@ + d, STALE_LOCK_TIMEOUT_SEC + 1)] ELSE f

\* d seconds pass.
Tick(d) ==
  /\ lock' = [path \in Paths |-> Aged(lock[path], d)]
  /\ elapsed' = [p \in Procs |->
                   IF pc[p] \in AcquirePcs THEN Min(elapsed[p] + d, TimeoutOf(p) + 1)
                                           ELSE elapsed[p]]
  /\ UNCHANGED <<auxVars, platform, quarantine, pc, op, fd, exc, releases, relRaised, kills,
                 acqOrder, storeVars>>

(***************************************************************************)
(* The entry points and the session cache: data                            *)
(***************************************************************************)
\* The process slot of the entry points: the processes run the main of one
\* script each, one after the other.
Handlers == {"h1"}

\* The session id and the tool_use ids of the hook inputs.
HookSessions == {"s1"}
ToolIds == {"t1", "t2"}

\* cache_key = f"{session_id}_{tool_use_id}"
CacheKey(session_id, tool_use_id) == session_id \o "_" \o tool_use_id

CacheKeys == {CacheKey(s, t) : s \in HookSessions, t \in ToolIds}

\* No entry under a key, and the cache without entries ({}).
NoEntry == -1

\* An entry whose start_ts is missing or is no ISO timestamp.
Unparsable == -2
EmptyCache == [k \in CacheKeys |-> NoEntry]

\* The keys of a cache mapping.
KeysOf(cache) == {k \in CacheKeys : cache[k] # NoEntry}

NoInput == [kind |-> "none"]

\* What a process has done so far: its exit code (-1: still running), the
\* reason of an exit code 1, the exception that escaped main, the number of
\* lock acquisitions that timed out and of warnings printed for them, the
\* read passes of load_session_entries, the tool_use_id the stop handler
\* found in the parent transcript, the start_ts handed to the analyzer
\* (-1: none) and whether a collaborator script was launched.
NoOutcome == [exit |-> -1, cause |-> "none", escaped |-> "none", timeouts |-> 0,
              warnings |-> 0, passes |-> 0, tool_use_id |-> "none", start_ts |-> -1,
              launched |-> FALSE]

\* The entry points at rest.
HooksIdle ==
  /\ now = 0
  /\ cacheFile = EmptyCache
  /\ hpc = [h \in Handlers |-> "absent"]
  /\ hin = [h \in Handlers |-> NoInput]
  /\ hcache = [h \in Handlers |-> EmptyCache]
  /\ hout = [h \in Handlers |-> NoOutcome]

\* The result of opening a path that names no file.
NoSuchFile == <<"ENOENT">>

\* No call of a path-checking function: its name, the path it checks, its
\* position, the answer of is_safe_path, the real path of the file it opened
\* and what it returns.
NoCall == [fn |-> "none", path |-> <<>>, pc |-> "idle", safe |-> FALSE,
           opened |-> NoSuchFile, result |-> "none", raised |-> FALSE]

PathsIdle == pcall = NoCall

\* No text under way: where it comes from, the text, its position, what has
\* been done to it so far and what was written to the file.
NoPiece == [kind |-> "none", text |-> <<>>, pc |-> "idle", ops |-> <<>>, written |-> <<>>]

\* No call of redact_sensitive_data.
NoRedact == [pc |-> "idle", x |-> <<>>, once |-> <<>>, twice |-> <<>>]

TextsIdle == piece = NoPiece /\ rcall = NoRedact

\* The identifiers of the tool uses of a transcript; "" is what the code
\* reads where the identifier is missing or empty.
EventIds == {"", "a", "b"}

\* tool_uses without entries ({}).
NoToolUse == [tool |-> "none", input |-> "none"]
NoToolUses == [id \in EventIds |-> NoToolUse]

\* No call of extract_execution_steps: events, the index of the event the
\* loop is at, tool_uses and steps.
NoExtract == [pc |-> "idle", events |-> <<>>, pos |-> 0, tool_uses |-> NoToolUses,
              steps |-> <<>>]

StepsIdle == xcall = NoExtract

\* No call of get_final_response: steps, the index into reversed(steps) and
\* the value returned.
NoFinal == [pc |-> "idle", steps |-> <<>>, i |-> 0, result |-> "none"]

\* No call of sanitize_filename: the argument and the local sanitized.
NoSanitize == [pc |-> "idle", name |-> <<>>, sanitized |-> <<>>]

\* No reader at work: the function, the lines of its file, the index of the
\* line it is at, what it has collected, the exception that left it and
\* what it returned.
NoRead == [fn |-> "none", lines |-> <<>>, pos |-> 0, collected |-> <<>>,
           raised |-> "none", returned |-> <<>>, pc |-> "idle"]

\* No run of the analyzer: the transcript (whether its path is inside the
\* allowed directories, whether it exists, its size in bytes, the number of
\* its events), the events parsed, the steps
\* extracted, the log file and the index entry written, the exit code.
NoAnalysis == [pc |-> "idle", safe |-> FALSE, exists |-> FALSE, size |-> 0, lines |-> 0,
               events |-> 0, steps |-> 0, log |-> "none", index |-> FALSE, exit |-> -1]

FnsIdle == fcall = NoFinal /\ ncall = NoSanitize /\ lcall = NoRead /\ acall = NoAnalysis

\* The state outside the file lock and the event store at rest.
AuxIdle == HooksIdle /\ PathsIdle /\ TextsIdle /\ StepsIdle /\ FnsIdle

(***************************************************************************)
(* The lock-guarded operations on their own                                *)
(***************************************************************************)
InitLock ==
  /\ platform \in Platforms
  /\ lock = [path \in Paths |-> NoFile]
  /\ quarantine = [path \in Paths |-> NoFile]
  /\ pc = [p \in Procs |-> IF p \in Clients THEN "idle" ELSE "absent"]
  /\ op = [p \in Procs |-> "none"]
  /\ fd = [p \in Procs |-> FALSE]
  /\ elapsed = [p \in Procs |-> 0]
  /\ exc = [p \in Procs |-> "none"]
  /\ releases = [p \in Procs |-> 0]
  /\ relRaised = [p \in Procs |-> FALSE]
  /\ kills = 0
  /\ acqOrder = <<>>
  /\ indexExists = FALSE
  /\ index = <<>>
  /\ sess = [p \in Procs |-> "none"]
  /\ attempt = [p \in Procs |-> 0]
  /\ last_count = [p \in Procs |-> -1]
  /\ entries = [p \in Procs |-> <<>>]
  /\ appends = [p \in Procs |-> 0]
  /\ AuxIdle

NextLock ==
  \/ \E p \in Clients, k \in Ops : Begin(p, k)
  \/ \E p \in Clients : Create(p)
  \/ \E p \in Clients : Sleep(p)
  \/ \E p \in Clients : Stat(p)
  \/ \E p \in Clients : Rename(p)
  \/ \E p \in Clients : UnlinkStale(p)
  \/ \E p \in Clients : Body(p)
  \/ \E p \in Clients : ReleaseClose(p)
  \/ \E p \in Clients : ReleaseUnlink(p)
  \/ \E p \in Clients : ReleaseAgain(p)
  \/ \E p \in Clients : Kill(p)
  \/ \E d \in TickSteps : Tick(d)

SpecLock == InitLock /\ [][NextLock]_vars

(***************************************************************************)
(* transcript-analyzer.py: main and write_index_entry                      *)
(***************************************************************************)
\* The line json.dumps(entry) + "\n" of process w: its session id, and w
\* standing for the fields that tell its entry from the others (log_file).
IndexLine(w) == [session |-> sess[w], writer |-> w]

\* main() for one stop event of session s.  When the transcript yields no
\* events, or the Markdown log cannot be written, main returns 0 without
\* calling write_index_entry; otherwise write_index_entry builds the entry
\* and enters with FileLock(lock_file, timeout=10.0).
WStart(w, s, logged) ==
  /\ pc[w] = "idle"
  /\ sess' = [sess EXCEPT ![w] = s]
  /\ op' = [op EXCEPT ![w] = "index_append"]
  /\ pc' = [pc EXCEPT ![w] = IF logged THEN "create" ELSE "done"]
  /\ UNCHANGED <<auxVars, platform, lock, quarantine, fd, elapsed, exc, releases, relRaised, kills,
                 acqOrder, indexExists, index, attempt, last_count, entries, appends>>

\* open(index_file, "a"): creates the file when it is missing; an OSError
\* leaves the with-block.
WOpen(w) ==
  /\ pc[w] = "w_open"
  /\ \/ /\ indexExists' = TRUE
        /\ pc' = [pc EXCEPT ![w] = "w_write"]
        /\ UNCHANGED exc
     \/ /\ exc' = [exc EXCEPT ![w] = "OSError"]
        /\ pc' = [pc EXCEPT ![w] = IF ExitReleases("OSError") THEN "rel_close" ELSE ReleasedPc(w)]
        /\ UNCHANGED indexExists
  /\ UNCHANGED <<auxVars, platform, lock, quarantine, op, fd, elapsed, releases, relRaised, kills,
                 acqOrder, index, sess, attempt, last_count, entries, appends>>

\* Mutant of Appended: the index opened with "w" instead of "a".
Overwritten(file, line) == <<line>>

\* Mutant of Appended: the entry line written twice.
AppendedTwice(file, line) == Append(Append(file, line), line)

\* The file after f.write(entry_line) and the close that flushes it: the
\* line, shorter than the write buffer, reaches the file in one write.
Appended(file, line) == Append(file, line)

\* f.write(entry_line) and the end of the inner with: the line is appended;
\* then the FileLock block is left.
WWrite(w) ==
  /\ pc[w] = "w_write"
  /\ index' = Appended(index, IndexLine(w))
  /\ appends' = [appends EXCEPT ![w] = @ + 1]
  /\ pc' = [pc EXCEPT ![w] = IF ExitReleases("none") THEN "rel_close" ELSE ReleasedPc(w)]
  /\ UNCHANGED <<auxVars, platform, lock, quarantine, op, fd, elapsed, exc, releases, relRaised, kills,
                 acqOrder, indexExists, sess, attempt, last_count, entries>>

(***************************************************************************)
(* session-summary.py: load_session_entries                                *)
(***************************************************************************)
\* load_session_entries(project_root, s): entries = [], last_count = -1,
\* and the first iteration of for attempt in range(max_retries + 1).
RStart(r, s) ==
  /\ pc[r] = "idle"
  /\ sess' = [sess EXCEPT ![r] = s]
  /\ op' = [op EXCEPT ![r] = "index_read"]
  /\ attempt' = [attempt EXCEPT ![r] = 0]
  /\ last_count' = [last_count EXCEPT ![r] = -1]
  /\ entries' = [entries EXCEPT ![r] = <<>>]
  /\ pc' = [pc EXCEPT ![r] = "r_exists"]
  /\ UNCHANGED <<auxVars, platform, lock, quarantine, fd, elapsed, exc, releases, relRaised, kills,
                 acqOrder, indexExists, index, appends>>

\* Mutant of Retry: one more iteration of the loop.
RetryOnceMore(a) == a <= max_retries

\* if attempt < max_retries: another iteration of
\* for attempt in range(max_retries + 1) follows.
Retry(a) == a < max_retries

\* The top of the loop body: entries = []; when index.jsonl does not exist,
\* sleep and continue while attempt < max_retries, else return entries;
\* when it exists, enter with FileLock(lock_path, timeout=5.0).
RExists(r) ==
  /\ pc[r] = "r_exists"
  /\ entries' = [entries EXCEPT ![r] = <<>>]
  /\ exc' = [exc EXCEPT ![r] = "none"]
  /\ IF indexExists
       THEN pc' = [pc EXCEPT ![r] = "create"] /\ UNCHANGED attempt
       ELSE IF Retry(attempt[r])
              THEN /\ attempt' = [attempt EXCEPT ![r] = @ + 1]
                   /\ UNCHANGED pc
              ELSE pc' = [pc EXCEPT ![r] = "returned"] /\ UNCHANGED attempt
  /\ UNCHANGED <<auxVars, platform, lock, quarantine, op, fd, elapsed, releases, relRaised, kills,
                 acqOrder, indexExists, index, sess, last_count, appends>>

\* open(index_path, "r"); an OSError leaves the with-block.
ROpen(r) ==
  /\ pc[r] = "r_open"
  /\ \/ pc' = [pc EXCEPT ![r] = "r_read"] /\ UNCHANGED exc
     \/ /\ exc' = [exc EXCEPT ![r] = "OSError"]
        /\ pc' = [pc EXCEPT ![r] = IF ExitReleases("OSError") THEN "rel_close" ELSE ReleasedPc(r)]
  /\ UNCHANGED <<auxVars, platform, lock, quarantine, op, fd, elapsed, releases, relRaised, kills,
                 acqOrder, storeVars>>

\* Mutant of Matching: the comparison with session_id left out.
MatchingAll(file, s) == file

\* The entries a pass keeps of the lines of the file: those whose "session"
\* equals session_id, in file order.
Matching(file, s) == SelectSeq(file, LAMBDA line : line.session = s)

\* for line in f: every line is parsed and the matching entries are kept;
\* then the FileLock block is left.
RRead(r) ==
  /\ pc[r] = "r_read"
  /\ entries' = [entries EXCEPT ![r] = Matching(index, sess[r])]
  /\ pc' = [pc EXCEPT ![r] = IF ExitReleases("none") THEN "rel_close" ELSE ReleasedPc(r)]
  /\ UNCHANGED <<auxVars, platform, lock, quarantine, op, fd, elapsed, exc, releases, relRaised, kills,
                 acqOrder, indexExists, index, sess, attempt, last_count, appends>>

\* Mutant of Stable: a count of 0 is stable as well.
StableOrEmpty(n, last) == n = last

\* The count of this pass equals the count of the previous one and is not 0.
Stable(n, last) == n = last /\ n > 0

\* After the try statement.  except TimeoutError / except OSError: sleep and
\* continue while attempt < max_retries.  Otherwise the stabilization check:
\* break when the count has not grown and is not 0; else note the count,
\* and sleep and go on while attempt < max_retries.  After the loop:
\* return entries.
RAfter(r) ==
  /\ pc[r] = "r_after"
  /\ IF exc[r] # "none" /\ Retry(attempt[r])
       THEN /\ attempt' = [attempt EXCEPT ![r] = @ + 1]
            /\ pc' = [pc EXCEPT ![r] = "r_exists"]
            /\ UNCHANGED last_count
       ELSE IF Stable(Len(entries[r]), last_count[r])
              THEN /\ pc' = [pc EXCEPT ![r] = "returned"]
                   /\ UNCHANGED <<attempt, last_count>>
              ELSE /\ last_count' = [last_count EXCEPT ![r] = Len(entries[r])]
                   /\ IF Retry(attempt[r])
                        THEN /\ attempt' = [attempt EXCEPT ![r] = @ + 1]
                             /\ pc' = [pc EXCEPT ![r] = "r_exists"]
                        ELSE /\ pc' = [pc EXCEPT ![r] = "returned"]
                             /\ UNCHANGED attempt
  /\ UNCHANGED <<auxVars, platform, lock, quarantine, op, fd, elapsed, exc, releases, relRaised, kills,
                 acqOrder, indexExists, index, sess, entries, appends>>

(***************************************************************************)
(* The event store: index writers and a reader                             *)
(***************************************************************************)
Init ==
  /\ platform \in Platforms
  /\ lock = [path \in Paths |-> NoFile]
  /\ quarantine = [path \in Paths |-> NoFile]
  /\ pc = [p \in Procs |-> IF p \in Writers \cup Readers THEN "idle" ELSE "absent"]
  /\ op = [p \in Procs |-> "none"]
  /\ fd = [p \in Procs |-> FALSE]
  /\ elapsed = [p \in Procs |-> 0]
  /\ exc = [p \in Procs |-> "none"]
  /\ releases = [p \in Procs |-> 0]
  /\ relRaised = [p \in Procs |-> FALSE]
  /\ kills = 0
  /\ acqOrder = <<>>
  /\ indexExists = FALSE
  /\ index = <<>>
  /\ sess = [p \in Procs |-> "none"]
  /\ attempt = [p \in Procs |-> 0]
  /\ last_count = [p \in Procs |-> -1]
  /\ entries = [p \in Procs |-> <<>>]
  /\ appends = [p \in Procs |-> 0]
  /\ AuxIdle

Next ==
  \/ \E w \in Writers, s \in Sessions, logged \in BOOLEAN : WStart(w, s, logged)
  \/ \E w \in Writers : WOpen(w)
  \/ \E w \in Writers : WWrite(w)
  \/ \E r \in Readers, s \in ReaderSessions : RStart(r, s)
  \/ \E r \in Readers : RExists(r)
  \/ \E r \in Readers : ROpen(r)
  \/ \E r \in Readers : RRead(r)
  \/ \E r \in Readers : RAfter(r)
  \/ \E p \in Writers \cup Readers : Create(p)
  \/ \E p \in Writers \cup Readers : Sleep(p)
  \/ \E p \in Writers \cup Readers : Stat(p)
  \/ \E p \in Writers \cup Readers : Rename(p)
  \/ \E p \in Writers \cup Readers : UnlinkStale(p)
  \/ \E p \in Writers \cup Readers : ReleaseClose(p)
  \/ \E p \in Writers \cup Readers : ReleaseUnlink(p)
  \/ \E d \in StoreTickSteps : Tick(d)

Spec == Init /\ [][Next]_vars

(***************************************************************************)
(* The recovery of stale lock files, under fair scheduling                 *)
(***************************************************************************)
RecoverOps == {"index_append", "index_read"}

NextRecover ==
  \/ \E p \in Clients, k \in RecoverOps : Begin(p, k)
  \/ \E p \in Clients : Create(p)
  \/ \E p \in Clients : Sleep(p)
  \/ \E p \in Clients : Stat(p)
  \/ \E p \in Clients : Rename(p)
  \/ \E p \in Clients : UnlinkStale(p)
  \/ \E p \in Clients : Body(p)
  \/ \E p \in Clients : ReleaseClose(p)
  \/ \E p \in Clients : ReleaseUnlink(p)
  \/ \E p \in Clients : KillWithin(p, MaxRecoverKills)
  \/ \E d \in TickSteps : Tick(d)

\* One step of the program text of process p.
Step(p) ==
  \/ Create(p) \/ Sleep(p) \/ Stat(p) \/ Rename(p) \/ UnlinkStale(p)
  \/ Body(p) \/ ReleaseClose(p) \/ ReleaseUnlink(p)

\* A process that is alive keeps running and time keeps passing; whether a
\* process is started or killed is up to the environment.
SpecRecover ==
  /\ InitLock
  /\ [][NextRecover]_vars
  /\ \A p \in Clients : WF_vars(Step(p))
  /\ WF_vars(\E d \in TickSteps : Tick(d))

(***************************************************************************)
(* Claims about FileLock                                                   *)
(***************************************************************************)
\* The processes between the return of acquire() and the call of release()
\* on the lock file at path.
Holders(path) == {p \in Procs : pc[p] \in HoldPcs /\ PathOf(p) = path}

\* C1: for every lock path, at most one process is between a successful
\* return of acquire and its call to release, stale takeovers included.
C1_MutualExclusion == \A path \in Paths : Cardinality(Holders(path)) <= 1

\* Process p is inside acquire() and no other process works on its path.
AcquiringAlone(p) ==
  /\ pc[p] \in AcquirePcs
  /\ \A q \in Procs \ {p} : ~Running(q)

\* The lock file at path is stale and its creator is dead.
StaleOrphan(path) ==
  lock[path].exists /\ IsStale(lock[path]) /\ lock[path].owner = "dead"

\* C2: a process that calls acquire on a path whose lock file is older than
\* 60 s and was left by a dead creator, with no other contender, eventually
\* returns holding the lock (unless a contender appears or it is killed).
C2_StaleRecovery ==
  \A p \in Clients :
    (AcquiringAlone(p) /\ StaleOrphan(PathOf(p)))
      ~> (pc[p] = BodyPc(p) \/ pc[p] = "idle" \/ \E q \in Procs \ {p} : Running(q))

\* C3: acquire ends by returning with the caller as the only holder, or by
\* raising TimeoutError; it raises only when more than timeout seconds have
\* passed and a non-stale lock file of another process exists; raising
\* leaves the caller without a handle and the lock file in place.
C3_AcquireOutcome ==
  [][\A p \in Procs :
       /\ (pc[p] \in AcquirePcs /\ pc'[p] = BodyPc(p)) =>
            \A q \in Procs \ {p} : ~(pc'[q] \in HoldPcs /\ PathOf(q) = PathOf(p))
       /\ (pc[p] \in AcquirePcs /\ pc'[p] = TimedOutPc(p)) =>
            /\ elapsed[p] > TimeoutOf(p)
            /\ lock[PathOf(p)].exists
            /\ lock[PathOf(p)].owner # p
            /\ ~IsStale(lock[PathOf(p)])
            /\ ~fd'[p]
            /\ lock' = lock
       /\ pc[p] \in AcquirePcs =>
            pc'[p] \in AcquirePcs \cup {BodyPc(p), TimedOutPc(p), "idle"}
    ]_vars

\* The direct user p has returned from release() at least once.
Released(p) == releases[p] >= 1 /\ pc[p] = "released"

\* C4: release never raises, and after one call or several calls in a row
\* the handle is cleared and no lock file created by the handle is at the
\* lock path.
C4_ReleaseIdempotent ==
  \A p \in Procs :
    Released(p) =>
      /\ ~relRaised[p]
      /\ ~fd[p]
      /\ ~(lock[PathOf(p)].exists /\ lock[PathOf(p)].owner = p)

\* A handle released twice, the second time while another process held the
\* lock file open on win32 (unlink fails there and the error is swallowed).
C4_Witness ==
  \E p \in Procs :
    /\ Released(p) /\ releases[p] = 2
    /\ platform = "win32"
    /\ lock[PathOf(p)].exists /\ lock[PathOf(p)].open

\* The lock-guarded operations (the with-blocks of the program).
GuardedOps == {"cache_load", "cache_save", "prompt_append", "index_append", "index_read"}

\* C5: when the with-block of a lock-guarded operation has been left,
\* normally or through an exception raised in the block, the process holds
\* no handle and the lock file it created is no longer at the lock path.
C5_ReleasedOnEveryExit ==
  \A p \in Procs :
    (op[p] \in GuardedOps /\ pc[p] = "done") =>
      /\ ~fd[p]
      /\ ~(lock[PathOf(p)].exists /\ lock[PathOf(p)].owner = p)

\* A cache load left through invalid cache JSON, and a cache save left
\* normally, both after their process had created the lock file.
C5_Witness ==
  /\ \E p \in Procs : op[p] = "cache_load" /\ pc[p] = "done" /\ exc[p] = "JSONDecodeError"
  /\ \E p \in Procs : op[p] = "cache_save" /\ pc[p] = "done" /\ exc[p] = "none"

(***************************************************************************)
(* Claims about the event store                                            *)
(***************************************************************************)
\* The writers of the lines of file, in file order.
WritersOf(file) == [i \in 1..Len(file) |-> file[i].writer]

\* The lines of index.jsonl that process w wrote.
LinesOf(w) == Len(SelectSeq(index, LAMBDA line : line.writer = w))

\* Process w obtained the index lock.
Acquired(w) == \E i \in 1..Len(acqOrder) : acqOrder[i] = w

\* C6: the lines of the index are those of the writers that obtained the
\* lock and wrote, one line each, in the order in which the writers obtained
\* the lock: none lost, none duplicated.
C6_WritersInLockOrder ==
  WritersOf(index) = SelectSeq(acqOrder, LAMBDA w : appends[w] > 0)

IsPrefix(a, b) == Len(a) <= Len(b) /\ SubSeq(b, 1, Len(a)) = a

\* C7: the index is append-only: in every step of writers and readers the
\* lines of the file before the step are a prefix of the lines after it.
C7_AppendOnly == [][IsPrefix(index, index')]_vars

\* Two lines are in the file and the reader is past its first pass.
C7_Witness == Len(index) = 2 /\ \E r \in Readers : attempt[r] >= 1 /\ Len(entries[r]) >= 1

C9_NoReadDuringAppend ==
  \A r \in Readers, w \in Writers :
    ~(pc[r] \in {"r_open", "r_read"} /\ pc[w] \in {"w_open", "w_write"})

\* C10: the entries of a read pass, and so the entries load_session_entries
\* returns, all carry the session id that was asked for.
C10_OnlyOwnSession ==
  \A r \in Readers : \A i \in 1..Len(entries[r]) : entries[r][i].session = sess[r]

\* The reader has returned entries while the file holds a line of another
\* session.
C10_Witness ==
  \E r \in Readers :
    /\ pc[r] = "returned" /\ Len(entries[r]) >= 1
    /\ \E i \in 1..Len(index) : index[i].session # sess[r]

(***************************************************************************)
(* The entry points: task-logger.py, transcript-analyzer.py and            *)
(* session-summary.py as processes with an exit code                       *)
(***************************************************************************)
CACHE_TTL_HOURS == 24

\* The latest hour of the clock, and the amounts of time, in hours, that may
\* pass between two steps.
MaxClock == 26
ClockSteps == {12, 13}

\* The outcome of one FileLock acquisition, as seen by the caller: acquire
\* returned, or raised TimeoutError.
LockOutcomes == {"obtained", "timeout"}

\* The fields of an input, with the values of an input that is well formed
\* and asks for nothing.  shape: the text is a JSON object, is no JSON, is
\* JSON but no object, or (--input-file) cannot be read.  todo: the event
\* has something to do (tool_name is Task; the prompt is not empty; both
\* transcript paths are given; stop_hook_active is not set; the transcript
\* has events).  tasks: the ids of the Task calls found in the parent
\* transcript.  agent: the tool_use ids that occur in agent_id.  collab: the
\* script the handler launches exists.  root_ok: project_root equals
\* CLAUDE_PROJECT_DIR.  disk: the log directory can be made and written.
PlainInput ==
  [script |-> "task-logger", shape |-> "object", event |-> "other", session |-> "s1",
   tool |-> "t1", todo |-> TRUE, tasks |-> <<>>, agent |-> {}, collab |-> TRUE,
   root_ok |-> TRUE, disk |-> "ok"]

Scripts == {"task-logger", "transcript-analyzer", "session-summary"}

\* The Task calls of a parent transcript.
TaskLists == {<<>>, <<"t1">>, <<"t2">>, <<"t1", "t2">>, <<"t2", "t1">>}

MalformedInputs ==
  {[PlainInput EXCEPT !.script = sc, !.shape = sh] :
     sc \in Scripts, sh \in {"not_json", "not_object"}}
    \cup {[PlainInput EXCEPT !.script = sc, !.shape = "unreadable"] :
            sc \in {"transcript-analyzer", "session-summary"}}

\* PreToolUse inputs.
StartInputs ==
  {[PlainInput EXCEPT !.event = "PreToolUse", !.session = s, !.tool = t, !.todo = d] :
     s \in HookSessions, t \in ToolIds, d \in BOOLEAN}

PromptInputs == {[PlainInput EXCEPT !.event = "UserPromptSubmit", !.todo = d] : d \in BOOLEAN}

\* SubagentStop inputs: tool is the tool_use id of the invocation that
\* stopped; agent_id holds that id or no tool_use id at all.
StopInputs ==
  {[PlainInput EXCEPT !.event = "SubagentStop", !.session = s, !.tool = t, !.todo = d,
                      !.tasks = ts, !.agent = IF named THEN {t} ELSE {}, !.collab = c] :
     s \in HookSessions, t \in ToolIds, d \in BOOLEAN, ts \in TaskLists,
     named \in BOOLEAN, c \in BOOLEAN}

SessionStopInputs ==
  {[PlainInput EXCEPT !.event = "Stop", !.todo = d, !.collab = c] : d \in BOOLEAN, c \in BOOLEAN}

AnalyzerInputs ==
  {[PlainInput EXCEPT !.script = "transcript-analyzer", !.root_ok = r, !.todo = d, !.disk = k] :
     r \in BOOLEAN, d \in BOOLEAN, k \in {"ok", "no_dir", "no_log"}}

\* For session-summary.py todo says that the index holds entries of the
\* session.
SummaryInputs ==
  {[PlainInput EXCEPT !.script = "session-summary", !.root_ok = r, !.todo = d, !.disk = k] :
     r \in BOOLEAN, d \in BOOLEAN, k \in {"ok", "no_dir"}}

Inputs ==
  MalformedInputs \cup StartInputs \cup PromptInputs \cup StopInputs \cup SessionStopInputs
    \cup AnalyzerInputs \cup SummaryInputs \cup {PlainInput}

\* return code: the process ends with exit code code; cause names the
\* reason of an exit code 1.
Returned(o, code, cause) == [o EXCEPT !.exit = code, !.cause = cause]

\* Mutant of Escaped: an interpreter that exits with code 0 after an
\* uncaught exception.
EscapedQuietly(o, e, cause) == [o EXCEPT !.exit = 0, !.cause = cause, !.escaped = e]

\* An exception no except clause catches leaves main: the interpreter prints
\* the traceback and exits with code 1.
Escaped(o, e, cause) == [o EXCEPT !.exit = 1, !.cause = cause, !.escaped = e]

\* Mutant of OnTimeout: a caller without its except TimeoutError clause.
OnTimeoutRaise(site) == "raise"

\* What the except clauses around the with FileLock block of site do with
\* TimeoutError: they print a warning and go on.
OnTimeout(site) == "warn"

\* The outcome o after a lock acquisition at site with outcome r.
AfterLock(o, site, r) ==
  IF r = "obtained" THEN o
  ELSE IF OnTimeout(site) = "warn"
         THEN [o EXCEPT !.timeouts = @ + 1, !.warnings = @ + 1]
         ELSE Escaped([o EXCEPT !.timeouts = @ + 1], "TimeoutError", "lock_timeout")

\* A process is started with input i on its stdin (or in its input file).
HStart(h, i) ==
  /\ hpc[h] \in {"idle", "exited"}
  /\ hin' = [hin EXCEPT ![h] = i]
  /\ hout' = [hout EXCEPT ![h] = NoOutcome]
  /\ hcache' = [hcache EXCEPT ![h] = EmptyCache]
  /\ hpc' = [hpc EXCEPT ![h] = "main"]
  /\ UNCHANGED <<hookFrame, now, cacheFile>>

\* extract_task_info_from_transcript: the id of the first Task call whose id
\* occurs in agent_id; failing that the id of the last Task call; "none"
\* when the transcript holds no Task call (or is not read at all).
ExtractTaskId(tasks, agent) ==
  LET hits == {n \in 1..Len(tasks) : tasks[n] \in agent}
  IN IF hits # {} THEN tasks[CHOOSE n \in hits : \A m \in hits : n <= m]
     ELSE IF Len(tasks) > 0 THEN tasks[Len(tasks)]
     ELSE "none"

\* main of task-logger.py up to the first lock-guarded step of the handler
\* it dispatches to: [pc, out].
TaskLoggerMain(i, o) ==
  IF i.shape = "not_json" THEN [pc |-> "exited", out |-> Returned(o, 1, "malformed")]
  ELSE IF i.shape = "not_object"
    THEN [pc |-> "exited", out |-> Escaped(o, "AttributeError", "malformed")]
  ELSE IF i.event = "PreToolUse"
    THEN IF i.todo THEN [pc |-> "start_load", out |-> o]
                   ELSE [pc |-> "exited", out |-> Returned(o, 0, "none")]
  ELSE IF i.event = "UserPromptSubmit"
    THEN IF i.todo THEN [pc |-> "prompt_append", out |-> o]
                   ELSE [pc |-> "exited", out |-> Returned(o, 0, "none")]
  ELSE IF i.event = "SubagentStop"
    THEN IF i.todo /\ ExtractTaskId(i.tasks, i.agent) # "none"
           THEN [pc |-> "stop_load",
                 out |-> [o EXCEPT !.tool_use_id = ExtractTaskId(i.tasks, i.agent)]]
           ELSE [pc |-> "exited", out |-> Returned(o, 0, "none")]
  ELSE IF i.event = "Stop"
    THEN IF i.todo THEN [pc |-> "launch", out |-> o]
                   ELSE [pc |-> "exited", out |-> Returned(o, 0, "none")]
  ELSE [pc |-> "exited", out |-> Returned(o, 0, "none")]

\* main of transcript-analyzer.py up to write_index_entry.
AnalyzerMain(i, o) ==
  IF i.shape = "not_json" THEN [pc |-> "exited", out |-> Returned(o, 1, "malformed")]
  ELSE IF i.shape = "unreadable" THEN [pc |-> "exited", out |-> Returned(o, 1, "unreadable")]
  ELSE IF i.shape = "not_object"
    THEN [pc |-> "exited", out |-> Escaped(o, "AttributeError", "malformed")]
  ELSE IF ~i.root_ok THEN [pc |-> "exited", out |-> Returned(o, 1, "invalid_root")]
  ELSE IF ~i.todo THEN [pc |-> "exited", out |-> Returned(o, 0, "none")]
  ELSE IF i.disk = "no_dir" THEN [pc |-> "exited", out |-> Escaped(o, "OSError", "log_dir")]
  ELSE IF i.disk = "no_log" THEN [pc |-> "exited", out |-> Returned(o, 0, "none")]
  ELSE [pc |-> "index_write", out |-> o]

\* main of session-summary.py up to load_session_entries.
SummaryMain(i, o) ==
  IF i.shape = "not_json" THEN [pc |-> "exited", out |-> Returned(o, 1, "malformed")]
  ELSE IF i.shape = "unreadable" THEN [pc |-> "exited", out |-> Returned(o, 1, "unreadable")]
  ELSE IF i.shape = "not_object"
    THEN [pc |-> "exited", out |-> Escaped(o, "AttributeError", "malformed")]
  ELSE IF ~i.root_ok THEN [pc |-> "exited", out |-> Returned(o, 1, "invalid_root")]
  ELSE [pc |-> "index_read", out |-> o]

\* The input is read and parsed, and the process runs up to its first
\* lock-guarded step.
Main(h) ==
  /\ hpc[h] = "main"
  /\ LET r == CASE hin[h].script = "task-logger" -> TaskLoggerMain(hin[h], hout[h])
                [] hin[h].script = "transcript-analyzer" -> AnalyzerMain(hin[h], hout[h])
                [] OTHER -> SummaryMain(hin[h], hout[h])
     IN /\ hpc' = [hpc EXCEPT ![h] = r.pc]
        /\ hout' = [hout EXCEPT ![h] = r.out]
  /\ UNCHANGED <<hookFrame, now, cacheFile, hin, hcache>>

\* What load_session_cache returns: the content of sessions.json as it is
\* when the lock was obtained, {} when it was not.
load_session_cache(r) == IF r = "obtained" THEN cacheFile ELSE EmptyCache

\* Mutant of cleanup_old_cache_entries: nothing is removed.
cleanup_nothing(cache) == cache

\* cleanup_old_cache_entries: the entries with start_ts > now - 24 h.
cleanup_old_cache_entries(cache) ==
  [k \in CacheKeys |-> IF cache[k] \notin {NoEntry, Unparsable} /\ cache[k] > now - CACHE_TTL_HOURS
                         THEN cache[k] ELSE NoEntry]

\* The pc of a process whose outcome is o: "exited" once it has an exit code.
PcAfter(o, next) == IF o.exit # -1 THEN "exited" ELSE next

\* handle_pre_tool_use: cache = load_session_cache();
\* cache = cleanup_old_cache_entries(cache).
StartLoad(h) ==
  /\ hpc[h] = "start_load"
  /\ \E r \in LockOutcomes :
       /\ hout' = [hout EXCEPT ![h] = AfterLock(@, "cache_load", r)]
       /\ hcache' = [hcache EXCEPT ![h] = cleanup_old_cache_entries(load_session_cache(r))]
       /\ hpc' = [hpc EXCEPT ![h] = PcAfter(AfterLock(hout[h], "cache_load", r), "start_save")]
  /\ UNCHANGED <<hookFrame, now, cacheFile, hin>>

\* Mutant of Saved: the mapping is merged into the content of the file.
SavedMerged(file, cache) ==
  [k \in CacheKeys |-> IF cache[k] # NoEntry THEN cache[k] ELSE file[k]]

\* sessions.json after SESSION_CACHE_FILE.write_text(json.dumps(cache)): the
\* mapping replaces what the file held.
Saved(file, cache) == cache

\* handle_pre_tool_use: cache[cache_key] = {"start_ts": now, ...};
\* save_session_cache(cache); return 0.
StartSave(h) ==
  /\ hpc[h] = "start_save"
  /\ \E r \in LockOutcomes :
       LET key == CacheKey(hin[h].session, hin[h].tool)
           cache == [hcache[h] EXCEPT ![key] = now]
           o == AfterLock(hout[h], "cache_save", r)
       IN /\ hcache' = [hcache EXCEPT ![h] = cache]
          /\ cacheFile' = IF r = "obtained" THEN Saved(cacheFile, cache) ELSE cacheFile
          /\ hout' = [hout EXCEPT ![h] = IF o.exit # -1 THEN o ELSE Returned(o, 0, "none")]
          /\ hpc' = [hpc EXCEPT ![h] = "exited"]
  /\ UNCHANGED <<hookFrame, now, hin>>

\* handle_user_prompt_submit: the entry is appended to user_prompts.jsonl
\* under the lock; return 0.
PromptAppend(h) ==
  /\ hpc[h] = "prompt_append"
  /\ \E r \in LockOutcomes :
       LET o == AfterLock(hout[h], "prompt_append", r)
       IN /\ hout' = [hout EXCEPT ![h] = IF o.exit # -1 THEN o ELSE Returned(o, 0, "none")]
          /\ hpc' = [hpc EXCEPT ![h] = "exited"]
  /\ UNCHANGED <<hookFrame, now, cacheFile, hin, hcache>>

\* The start time handle_subagent_stop takes from the cache it loaded:
\* that of the entry under cache_key, the stop time when there is none.
StartTsFrom(cache, key) == IF cache[key] # NoEntry THEN cache[key] ELSE now

\* handle_subagent_stop: cache = load_session_cache(), the lookup of
\* cache_key, session_info["start_ts"] = start_ts.
StopLoad(h) ==
  /\ hpc[h] = "stop_load"
  /\ \E r \in LockOutcomes :
       LET o == AfterLock(hout[h], "cache_load", r)
           key == CacheKey(hin[h].session, hout[h].tool_use_id)
       IN /\ hcache' = [hcache EXCEPT ![h] = load_session_cache(r)]
          /\ hout' = [hout EXCEPT ![h] =
                        IF o.exit # -1 THEN o
                        ELSE [o EXCEPT !.start_ts = StartTsFrom(load_session_cache(r), key)]]
          /\ hpc' = [hpc EXCEPT ![h] = PcAfter(o, "launch")]
  /\ UNCHANGED <<hookFrame, now, cacheFile, hin>>

\* What the launch of a collaborator script can do.
LaunchOutcomes == {"started", "raised"}

\* handle_subagent_stop / handle_stop: the script must exist, else return 1;
\* subprocess.Popen and the write to its stdin; an exception: return 1.
Launch(h) ==
  /\ hpc[h] = "launch"
  /\ IF ~hin[h].collab
       THEN hout' = [hout EXCEPT ![h] = Returned(@, 1, "script_missing")]
       ELSE \E r \in LaunchOutcomes :
              hout' = [hout EXCEPT ![h] =
                         IF r = "started" THEN Returned([@ EXCEPT !.launched = TRUE], 0, "none")
                                          ELSE Returned(@, 1, "launch_failed")]
  /\ hpc' = [hpc EXCEPT ![h] = "exited"]
  /\ UNCHANGED <<hookFrame, now, cacheFile, hin, hcache>>

\* write_index_entry under the index lock, then return 0 from main.
IndexWrite(h) ==
  /\ hpc[h] = "index_write"
  /\ \E r \in LockOutcomes :
       LET o == AfterLock(hout[h], "index_append", r)
       IN /\ hout' = [hout EXCEPT ![h] = IF o.exit # -1 THEN o ELSE Returned(o, 0, "none")]
          /\ hpc' = [hpc EXCEPT ![h] = "exited"]
  /\ UNCHANGED <<hookFrame, now, cacheFile, hin, hcache>>

\* main of session-summary.py after load_session_entries, whose last pass
\* had the lock outcome r: without entries return 0; with entries the
\* summary directory is made (an OSError of os.makedirs is not caught) and
\* the summary written; return 0.
SummaryRest(i, o, r) ==
  IF r = "obtained" /\ i.todo /\ i.disk = "no_dir"
    THEN Escaped(o, "OSError", "log_dir")
    ELSE Returned(o, 0, "none")

\* One pass of load_session_entries over an existing index.jsonl: the lock
\* is obtained or times out; a pass that timed out is repeated while
\* attempt < max_retries, one that read the file also unless the count is
\* stable (the same as in the pass before, and not 0); after the last pass
\* main goes on.
IndexReadPass(h) ==
  /\ hpc[h] = "index_read"
  /\ \E r \in LockOutcomes, stable \in {FALSE, hin[h].todo /\ hout[h].passes > 0} :
       LET o == [AfterLock(hout[h], "index_read", r) EXCEPT !.passes = @ + 1]
           again == hout[h].passes < max_retries /\ ~(r = "obtained" /\ stable)
       IN IF o.exit # -1
            THEN hout' = [hout EXCEPT ![h] = o] /\ hpc' = [hpc EXCEPT ![h] = "exited"]
            ELSE IF again
              THEN hout' = [hout EXCEPT ![h] = o] /\ UNCHANGED hpc
              ELSE /\ hout' = [hout EXCEPT ![h] = SummaryRest(hin[h], o, r)]
                   /\ hpc' = [hpc EXCEPT ![h] = "exited"]
  /\ UNCHANGED <<hookFrame, now, cacheFile, hin, hcache>>

\* d hours pass.
ClockTick(d) ==
  /\ now + d <= MaxClock
  /\ now' = now + d
  /\ UNCHANGED <<hookFrame, cacheFile, hpc, hin, hcache, hout>>

\* No process of the file lock model runs.
LockIdle ==
  /\ platform = "posix"
  /\ lock = [path \in Paths |-> NoFile]
  /\ quarantine = [path \in Paths |-> NoFile]
  /\ pc = [p \in Procs |-> "absent"]
  /\ op = [p \in Procs |-> "none"]
  /\ fd = [p \in Procs |-> FALSE]
  /\ elapsed = [p \in Procs |-> 0]
  /\ exc = [p \in Procs |-> "none"]
  /\ releases = [p \in Procs |-> 0]
  /\ relRaised = [p \in Procs |-> FALSE]
  /\ kills = 0
  /\ acqOrder = <<>>
  /\ indexExists = FALSE
  /\ index = <<>>
  /\ sess = [p \in Procs |-> "none"]
  /\ attempt = [p \in Procs |-> 0]
  /\ last_count = [p \in Procs |-> -1]
  /\ entries = [p \in Procs |-> <<>>]
  /\ appends = [p \in Procs |-> 0]

InitHooks ==
  /\ LockIdle
  /\ FnsIdle
  /\ PathsIdle
  /\ TextsIdle
  /\ StepsIdle
  /\ now = 0
  /\ cacheFile = EmptyCache
  /\ hpc = [h \in Handlers |-> "idle"]
  /\ hin = [h \in Handlers |-> NoInput]
  /\ hcache = [h \in Handlers |-> EmptyCache]
  /\ hout = [h \in Handlers |-> NoOutcome]

NextHooks ==
  \/ \E h \in Handlers, i \in Inputs : HStart(h, i)
  \/ \E h \in Handlers : Main(h)
  \/ \E h \in Handlers : StartLoad(h)
  \/ \E h \in Handlers : StartSave(h)
  \/ \E h \in Handlers : PromptAppend(h)
  \/ \E h \in Handlers : StopLoad(h)
  \/ \E h \in Handlers : Launch(h)
  \/ \E h \in Handlers : IndexWrite(h)
  \/ \E h \in Handlers : IndexReadPass(h)
  \/ \E d \in ClockSteps : ClockTick(d)

SpecHooks == InitHooks /\ [][NextHooks]_vars

(***************************************************************************)
(* Claims about the session cache and the entry points                     *)
(***************************************************************************)
\* The age, in hours, of a start timestamp.
AgeOf(ts) == now - ts

\* Process h takes the step in which load_session_cache returns to it.
LoadReturns(h) == hpc[h] \in {"start_load", "stop_load"} /\ hpc'[h] # hpc[h]

\* C11: the mapping a handler has after a cache load (start handler and
\* stop handler) holds no entry whose start timestamp is more than 24 hours
\* old.
C11_LoadedFresh ==
  [][\A h \in Handlers :
       LoadReturns(h) =>
         \A k \in KeysOf(hcache'[h]) : AgeOf(hcache'[h][k]) <= CACHE_TTL_HOURS]_vars

\* Process h takes the step that ends the load, cleanup, add, save sequence
\* of the start handler.
SaveReturns(h) == hpc[h] = "start_save" /\ hpc'[h] = "exited"

\* C12: an entry that is in the cache file, under another key than the one
\* the start handler adds, with a start timestamp less than 24 hours old,
\* is in the cache file with the same value after the handler's sequence,
\* whatever the outcomes of the two lock acquisitions.
C12_FreshEntrySurvives ==
  [][\A h \in Handlers :
       SaveReturns(h) =>
         \A k \in KeysOf(cacheFile) :
           (k # CacheKey(hin[h].session, hin[h].tool) /\ AgeOf(cacheFile[k]) < CACHE_TTL_HOURS)
             => cacheFile'[k] = cacheFile[k]]_vars

\* Process h takes the step in which the stop handler fixes the start time
\* it hands to the analyzer.
StopLooksUp(h) == hpc[h] = "stop_load" /\ hpc'[h] = "launch"

\* C13: the stop handler of session s and invocation t hands the analyzer
\* the start_ts of the entry under the key s_t when the cache file holds
\* one, and the stop time when it holds none.
C13_StartStopCorrelation ==
  [][\A h \in Handlers :
       StopLooksUp(h) =>
         LET key == CacheKey(hin[h].session, hin[h].tool)
         IN hout'[h].start_ts = IF cacheFile[key] # NoEntry THEN cacheFile[key] ELSE now]_vars

\* The failures of a process that have nothing to do with its locks: the
\* script to launch is missing or cannot be launched, a directory cannot be
\* made.
OtherFailures == {"script_missing", "launch_failed", "log_dir"}

\* C14: in a process in which a lock acquisition timed out the TimeoutError
\* does not escape, one warning is printed per timeout, the guarded step is
\* tried at most max_retries + 1 times, and the process exits with code 0
\* (unless it fails for a reason that has nothing to do with the lock).
C14_TimeoutNotPropagated ==
  \A h \in Handlers :
    hout[h].timeouts > 0 =>
      /\ hout[h].escaped # "TimeoutError"
      /\ hout[h].cause \in {"none"} \cup OtherFailures
      /\ hout[h].warnings = hout[h].timeouts
      /\ hout[h].timeouts <= max_retries + 1
      /\ (hpc[h] = "exited" /\ hout[h].cause = "none") =>
           (hout[h].exit = 0 /\ hout[h].escaped = "none")

\* The summary process has exited with code 0 after the lock timed out in
\* every read pass.
C14_Witness ==
  \E h \in Handlers :
    /\ hpc[h] = "exited" /\ hin[h].script = "session-summary"
    /\ hout[h].timeouts = max_retries + 1 /\ hout[h].exit = 0

\* The input is not a JSON object, or cannot be read.
Malformed(i) == i.shape # "object"

\* The stop handlers, which launch a collaborator script.
Launches(i) == i.script = "task-logger" /\ i.event \in {"SubagentStop", "Stop"}

ReachesLaunch(i) ==
  /\ Launches(i) /\ ~Malformed(i) /\ i.todo
  /\ i.event = "SubagentStop" => ExtractTaskId(i.tasks, i.agent) # "none"

\* The analyzer or the summary process is given a project_root other than
\* CLAUDE_PROJECT_DIR.
InvalidRoot(i) == i.script # "task-logger" /\ ~Malformed(i) /\ ~i.root_ok

PathNames == {"~", "home", "proj", "out", "link", "t", ".."}

\* The longest path argument.
MaxPathLen == 4

PathArgs == UNION {[1..k -> PathNames] : k \in 1..MaxPathLen}

HomeDir == <<"home">>
ProjectRoot == <<"proj">>

\* LOG_BASE_DIR = ".claude/logs/agents", taken as one component
LOG_BASE_DIR == <<"logs">>

OutsideDir == <<"out">>

Dirs == {<<>>, HomeDir, ProjectRoot, ProjectRoot \o LOG_BASE_DIR, OutsideDir}

Files == {Append(d, "t") : d \in Dirs}

\* The symbolic links; each points to the directory outside.
Links == {Append(d, "link") : d \in {HomeDir, ProjectRoot, ProjectRoot \o LOG_BASE_DIR}}

LinkTarget(l) == OutsideDir

Parent(p) == IF p = <<>> THEN <<>> ELSE SubSeq(p, 1, Len(p) - 1)

\* open(path): the file the operating system reaches from directory cur
\* along rest.  A link is followed where it stands, and ".." is the parent
\* of the directory reached so far.
RECURSIVE Walk(_, _)
Walk(cur, rest) ==
  IF rest = <<>> THEN cur
  ELSE IF cur \notin Dirs THEN NoSuchFile
  ELSE IF Head(rest) = ".." THEN Walk(Parent(cur), Tail(rest))
  ELSE LET nxt == Append(cur, Head(rest))
       IN  Walk(IF nxt \in Links THEN LinkTarget(nxt) ELSE nxt, Tail(rest))

\* The file open(path) opens, NoSuchFile when there is none.
OpenedBy(path) ==
  LET f == Walk(<<>>, path) IN IF f \in Files THEN f ELSE NoSuchFile

\* os.path.expanduser
expanduser(path) ==
  IF path # <<>> /\ Head(path) = "~" THEN HomeDir \o Tail(path) ELSE path

\* os.path.normpath: "x/.." is removed from the text of the path, whatever
\* x is.
RECURSIVE NormInto(_, _)
NormInto(done, rest) ==
  IF rest = <<>> THEN done
  ELSE IF Head(rest) = ".." THEN NormInto(Parent(done), Tail(rest))
  ELSE NormInto(Append(done, Head(rest)), Tail(rest))

normpath(path) == NormInto(<<>>, path)

\* os.path.realpath: links are followed; a component that does not exist is
\* kept as it is.
RECURSIVE RealInto(_, _)
RealInto(cur, rest) ==
  IF rest = <<>> THEN cur
  ELSE IF Head(rest) = ".." THEN RealInto(Parent(cur), Tail(rest))
  ELSE LET nxt == Append(cur, Head(rest))
       IN  RealInto(IF nxt \in Links THEN LinkTarget(nxt) ELSE nxt, Tail(rest))

realpath(path) == RealInto(<<>>, path)

\* abs_path == abs_prefix or abs_path.startswith(abs_prefix + os.sep)
StartsWith(abs_path, abs_prefix) ==
  /\ Len(abs_prefix) <= Len(abs_path)
  /\ SubSeq(abs_path, 1, Len(abs_prefix)) = abs_prefix

\* is_safe_path on a platform other than win32, where the comparison keeps
\* the case of the letters.
is_safe_path(path, allowed_prefixes) ==
  \E prefix \in allowed_prefixes :
    StartsWith(realpath(normpath(path)), realpath(normpath(prefix)))

PathFns == {"extract_task_info_from_transcript", "handle_stop", "parse_transcript",
            "read_subagent_log"}

\* The path a function checks and opens: the expanded transcript path, or
\* the log file below the log directory of the project.
CheckedPath(fn, arg) ==
  IF fn = "read_subagent_log" THEN ProjectRoot \o LOG_BASE_DIR \o arg
  ELSE expanduser(arg)

\* allowed_prefixes of each function
AllowedFor(fn) ==
  IF fn = "read_subagent_log" THEN {ProjectRoot}
  ELSE {expanduser(<<"~">>), ProjectRoot}

\* A function has been called with a path argument.
PathCalled(fn, arg) ==
  [NoCall EXCEPT !.fn = fn, !.path = CheckedPath(fn, arg), !.pc = "called"]

\* if not is_safe_path(...): return "not found"
PathCheck ==
  /\ pcall.pc = "called"
  /\ LET ok == is_safe_path(pcall.path, AllowedFor(pcall.fn))
     IN  pcall' = [pcall EXCEPT !.safe = ok, !.pc = IF ok THEN "checked" ELSE "done"]
  /\ UNCHANGED <<lockVars, hookVars, fnVars, textVars, stepVars>>

\* with open(path) as f: ..., inside try / except; a path that names no
\* file gives "not found" as well.
PathOpen ==
  /\ pcall.pc = "checked"
  /\ LET f == OpenedBy(pcall.path)
     IN  pcall' = [pcall EXCEPT !.opened = f,
                                !.result = IF f = NoSuchFile THEN "none" ELSE "content",
                                !.pc = "done"]
  /\ UNCHANGED <<lockVars, hookVars, fnVars, textVars, stepVars>>

InitPaths ==
  /\ LockIdle
  /\ FnsIdle
  /\ HooksIdle
  /\ TextsIdle
  /\ StepsIdle
  /\ \E fn \in PathFns, arg \in PathArgs : pcall = PathCalled(fn, arg)

NextPaths ==
  \/ PathCheck
  \/ PathOpen

SpecPaths == InitPaths /\ [][NextPaths]_vars

(***************************************************************************)
(* Claims about the paths                                                  *)
(***************************************************************************)

\* The path names a file whose real path lies under none of the allowed
\* roots of the function.
ResolvesOutside(c) ==
  /\ OpenedBy(c.path) # NoSuchFile
  /\ ~ \E prefix \in AllowedFor(c.fn) : StartsWith(OpenedBy(c.path), Walk(<<>>, prefix))

\* C16: a path that resolves, after symlink resolution, outside the allowed
\* roots is never opened: the function returns as if the file did not exist
\* and raises nothing.
C16_UnsafeNeverOpened ==
  (pcall.pc # "idle" /\ ResolvesOutside(pcall)) =>
    /\ pcall.opened = NoSuchFile
    /\ pcall.result = "none"
    /\ ~pcall.raised

(***************************************************************************)
(* Free texts, their redaction and their way into the files                *)
(*                                                                         *)
(* A text is a sequence of runs of characters, each with its kind and its  *)
(* length:                                                                 *)
(*   pad    harmless words; begins and ends with a blank                   *)
(*   key    the text password= (pattern: password|passwd|pwd|secret)       *)
(*   quote  one " or '                                                     *)
(*   val    characters of a secret                                         *)
(*   mark   the text ***REDACTED***                                        *)
(*   dots   the text ... appended after a cut                              *)
(*   note   a line break and ... (truncated)                               *)
(*   fence  three backquotes; fenced the same spaced out by blanks         *)
(*   bslash the backslash json.dumps puts before a quote                   *)
(*   word   other characters that are neither blank nor quote, such as a   *)
(*          part of a key or a mark that was cut                           *)
(*   open, close  the text json.dumps puts around a string value           *)
(* The texts of the model hold one password assignment and nothing that    *)
(* another pattern of SENSITIVE_PATTERNS matches.                          *)
(***************************************************************************)

Run(k, n) == [k |-> k, n |-> n]

Key == Run("key", 9)
Quote == Run("quote", 1)
Marker == Run("mark", 14)
Dots == Run("dots", 3)
Note == Run("note", 16)
Fence == Run("fence", 3)

MAX_CONTENT_LENGTH == 1000
MAX_TOOL_RESULT_LENGTH == 500
MAX_PROMPT_LENGTH == 500
MAX_TOOL_INPUT_LENGTH == 1000

\* {8,} in the pattern of a password: the least length of a secret
MinSecretLen == 8

\* The kinds the class [^\s"'] of the pattern matches.
ValClass == {"val", "mark", "dots", "word", "fence", "bslash"}

Pad(n) == IF n > 0 THEN <<Run("pad", n)>> ELSE <<>>

Opt(b, run) == IF b THEN <<run>> ELSE <<>>

\* A text with one password assignment: after lead characters the key, the
\* secret of s characters, quoted or not, directly followed by tail further
\* characters, and trail characters after them.
TextOf(fence, lead, quoted, s, tail, trail) ==
  Opt(fence, Fence) \o Pad(lead) \o <<Key>>
    \o (IF quoted
          THEN <<Quote, Run("val", s), Quote>> \o Opt(tail > 0, Run("val", tail))
          ELSE <<Run("val", s + tail)>>)
    \o Pad(trail)

LeadLens == {0, 480, 990}
SecretLens == {4, 8, 20}
TailLens == {0, 1, 8}
TrailLens == {0, 600}

Texts ==
  {TextOf(fence, lead, quoted, s, tail, trail) :
     fence \in BOOLEAN, lead \in LeadLens, quoted \in BOOLEAN,
     s \in SecretLens, tail \in TailLens, trail \in TrailLens}

\* len(text)
RECURSIVE TextLen(_)
TextLen(text) == IF text = <<>> THEN 0 ELSE Head(text).n + TextLen(Tail(text))

\* A run of which only the first n characters are left.
CutRun(run, n) ==
  Run(IF run.k \in {"key", "mark", "dots", "fence"} THEN "word" ELSE run.k, n)

\* text[:n]
RECURSIVE Take(_, _)
Take(text, n) ==
  IF n <= 0 \/ text = <<>> THEN <<>>
  ELSE IF Head(text).n <= n THEN <<Head(text)>> \o Take(Tail(text), n - Head(text).n)
  ELSE <<CutRun(Head(text), n)>>

\* The first index from j on at which the text has no character of the class.
RECURSIVE ValRunEnd(_, _)
ValRunEnd(text, j) ==
  IF j <= Len(text) /\ text[j].k \in ValClass THEN ValRunEnd(text, j + 1) ELSE j

IsQuoteAt(text, j) == j <= Len(text) /\ text[j].k = "quote"

\* re.sub with the pattern of a password, from run i on:
\*   (password|...)\s*[=:]\s*["']?([^\s"']{8,})["']?  ->  \1=***REDACTED***
\* The class is matched greedily, whatever the kinds of its characters.
RECURSIVE RedactFrom(_, _)
RedactFrom(text, i) ==
  IF i > Len(text) THEN <<>>
  ELSE IF text[i].k # "key" THEN <<text[i]>> \o RedactFrom(text, i + 1)
  ELSE LET j == IF IsQuoteAt(text, i + 1) THEN i + 2 ELSE i + 1
           m == ValRunEnd(text, j)
           e == IF IsQuoteAt(text, m) THEN m + 1 ELSE m
       IN  IF TextLen(SubSeq(text, j, m - 1)) >= MinSecretLen
             THEN <<text[i], Marker>> \o RedactFrom(text, e)
             ELSE <<text[i]>> \o RedactFrom(text, i + 1)

redact_sensitive_data(text) == RedactFrom(text, 1)

\* escape_code_block: ``` becomes ` ` `
RECURSIVE escape_code_block(_)
escape_code_block(text) ==
  IF text = <<>> THEN <<>>
  ELSE (IF Head(text).k = "fence" THEN <<Run("fenced", 5)>> ELSE <<Head(text)>>)
         \o escape_code_block(Tail(text))

\* The text as a JSON string value: a backslash before each quote.
RECURSIVE JsonString(_)
JsonString(text) ==
  IF text = <<>> THEN <<>>
  ELSE (IF Head(text).k = "quote" THEN <<Run("bslash", 1), Quote>> ELSE <<Head(text)>>)
         \o JsonString(Tail(text))

\* json.dumps(tool_input, ensure_ascii=False, indent=2) of an input with
\* one string value
json_dumps(text) == <<Run("open", 16)>> \o JsonString(text) \o <<Quote, Run("close", 2)>>

\* The free texts the system writes: five into the log of an agent, the
\* user's prompt into user_prompts.jsonl, the task's prompt into the cache.
LogKinds == {"tool_input", "tool_result", "final_response", "description", "prompt"}
JsonKinds == {"user_prompt", "cache_prompt"}
TextKinds == LogKinds \cup JsonKinds

\* What has been done to a text, with "truncate" only where characters
\* were cut off.
Did(ops, what, happened) == IF happened THEN Append(ops, what) ELSE ops

\* text[:cap] + suffix where the text is longer than cap
Capped(text, cap, suffix) ==
  IF TextLen(text) > cap THEN Take(text, cap) \o suffix ELSE text

\* The text is taken from the transcript or the hook input:
\* extract_execution_steps, extract_task_info_from_transcript,
\* handle_user_prompt_submit and handle_pre_tool_use.
Extract ==
  /\ piece.pc = "input"
  /\ LET t == piece.text
         cap == CASE piece.kind = "tool_result" -> MAX_CONTENT_LENGTH
                  [] piece.kind \in {"prompt", "cache_prompt"} -> MAX_PROMPT_LENGTH
                  [] piece.kind = "user_prompt" -> MAX_PROMPT_LENGTH * 2
                  [] OTHER -> TextLen(t)
         suffix == IF piece.kind = "tool_result" THEN <<Dots>> ELSE <<>>
     IN  piece' = [piece EXCEPT !.text = Capped(t, cap, suffix),
                                !.ops = Did(@, "truncate", TextLen(t) > cap),
                                !.pc = IF piece.kind \in LogKinds THEN "extracted"
                                       ELSE "rendered"]
  /\ UNCHANGED <<lockVars, hookVars, fnVars, pathVars, stepVars, rcall>>

\* generate_markdown_log puts the text into the log.
Render ==
  /\ piece.pc = "extracted"
  /\ LET t == piece.text
     IN  piece' =
           CASE piece.kind = "tool_input" ->
                  LET r == redact_sensitive_data(json_dumps(t))
                  IN  [piece EXCEPT
                         !.text = Capped(r, MAX_TOOL_INPUT_LENGTH, <<Note>>),
                         !.ops = Did(Append(@, "redact"), "truncate",
                                     TextLen(r) > MAX_TOOL_INPUT_LENGTH),
                         !.pc = "rendered"]
             [] piece.kind = "tool_result" ->
                  LET r == escape_code_block(redact_sensitive_data(t))
                  IN  [piece EXCEPT
                         !.text = Capped(r, MAX_TOOL_RESULT_LENGTH, <<Note>>),
                         !.ops = Did(Append(@, "redact"), "truncate",
                                     TextLen(r) > MAX_TOOL_RESULT_LENGTH),
                         !.pc = "rendered"]
             [] piece.kind = "final_response" ->
                  [piece EXCEPT !.text = escape_code_block(redact_sensitive_data(t)),
                                !.ops = Append(@, "redact"),
                                !.pc = "rendered"]
             [] piece.kind = "prompt" ->
                  [piece EXCEPT !.text = escape_code_block(t), !.pc = "rendered"]
             [] OTHER -> [piece EXCEPT !.pc = "rendered"]
  /\ UNCHANGED <<lockVars, hookVars, fnVars, pathVars, stepVars, rcall>>

\* f.write: the log as it is, a prompt as a value of a JSON object.
WriteText ==
  /\ piece.pc = "rendered"
  /\ piece' = [piece EXCEPT
                 !.written = IF piece.kind \in JsonKinds THEN JsonString(piece.text)
                             ELSE piece.text,
                 !.ops = Append(@, "write"),
                 !.pc = "written"]
  /\ UNCHANGED <<lockVars, hookVars, fnVars, pathVars, stepVars, rcall>>

InitRender ==
  /\ LockIdle
  /\ FnsIdle
  /\ HooksIdle
  /\ PathsIdle
  /\ StepsIdle
  /\ rcall = NoRedact
  /\ \E kind \in TextKinds, t \in Texts :
       piece = [NoPiece EXCEPT !.kind = kind, !.text = t, !.pc = "input"]

NextRender ==
  \/ Extract
  \/ Render
  \/ WriteText

SpecRender == InitRender /\ [][NextRender]_vars

\* result = redact_sensitive_data(x)
RedactOnce ==
  /\ rcall.pc = "called"
  /\ rcall' = [rcall EXCEPT !.once = redact_sensitive_data(rcall.x), !.pc = "once"]
  /\ UNCHANGED <<lockVars, hookVars, fnVars, pathVars, stepVars, piece>>

\* redact_sensitive_data(result)
RedactTwice ==
  /\ rcall.pc = "once"
  /\ rcall' = [rcall EXCEPT !.twice = redact_sensitive_data(rcall.once), !.pc = "twice"]
  /\ UNCHANGED <<lockVars, hookVars, fnVars, pathVars, stepVars, piece>>

InitRedact ==
  /\ LockIdle
  /\ FnsIdle
  /\ HooksIdle
  /\ PathsIdle
  /\ StepsIdle
  /\ piece = NoPiece
  /\ \E x \in Texts : rcall = [NoRedact EXCEPT !.x = x, !.pc = "called"]

NextRedact ==
  \/ RedactOnce
  \/ RedactTwice

SpecRedact == InitRedact /\ [][NextRedact]_vars

(***************************************************************************)
(* Claims about the texts                                                  *)
(***************************************************************************)

\* The text was cut before it was redacted.
CutThenRedacted(ops) ==
  \E i, j \in DOMAIN ops : i < j /\ ops[i] = "truncate" /\ ops[j] = "redact"

\* C17: redaction precedes truncation: a tool input, a tool result and the
\* final response are redacted in full before any of their characters is
\* cut off; no text is cut to a cap first and redacted afterwards.
C17_RedactBeforeTruncate ==
  piece.kind \in {"tool_input", "tool_result", "final_response"} =>
    ~CutThenRedacted(piece.ops)

\* C18: every free text that is written to disk (tool input, tool result,
\* final response, description and prompt of the task in the log, the
\* user's prompt in user_prompts.jsonl, the prompt in the cache file) has
\* passed through redact_sensitive_data before it is written.
C18_WrittenIsRedacted ==
  piece.pc = "written" =>
    \E i, j \in DOMAIN piece.ops :
      i < j /\ piece.ops[i] = "redact" /\ piece.ops[j] = "write"

\* C19: redact_sensitive_data is idempotent on its own output, also where a
\* quoted secret is directly followed by further characters that are not
\* blank.
C19_RedactIdempotent ==
  rcall.pc = "twice" => rcall.twice = rcall.once

(***************************************************************************)
(* The extraction of the execution steps                                   *)
(*                                                                         *)
(* An event has a type; an assistant or user event has one content item.   *)
(* The fields an event does not have are left empty.                       *)
(***************************************************************************)

\* The longest list of events.
MaxEvents == 2

ToolNames == {"Read", "Bash"}
ToolInputs == {"{}", "{file_path}"}

\* The content of a tool result: a string, or a list of parts with text.
StrResult(text) == [form |-> "str", parts |-> <<text>>]
ListResult(a, b) == [form |-> "list", parts |-> <<a, b>>]
NoResult == StrResult(<<>>)

ShortText == <<Run("pad", 10)>>
LongText == <<Run("pad", MAX_CONTENT_LENGTH + 500)>>

Results == {StrResult(ShortText), StrResult(LongText), ListResult(ShortText, ShortText)}

Event(type, item, id, name, input, result, text) ==
  [type |-> type, item |-> item, id |-> id, name |-> name, input |-> input,
   result |-> result, text |-> text]

\* {"type": "assistant", "message": {"content": [{"type": "text", ...}]}}
TextEvents ==
  {Event("assistant", "text", "", "", "", NoResult, t) : t \in {<<>>, ShortText}}

\* {"type": "assistant", "message": {"content": [{"type": "tool_use", ...}]}}
ToolUseEvents ==
  {Event("assistant", "tool_use", id, name, input, NoResult, <<>>) :
     id \in EventIds, name \in ToolNames, input \in ToolInputs}

\* {"type": "user", "message": {"content": [{"type": "tool_result", ...}]}}
ToolResultEvents ==
  {Event("user", "tool_result", id, "", "", r, <<>>) : id \in EventIds, r \in Results}

\* The events of the old format, and an event of a type the loop skips.
OldToolUseEvents ==
  {Event("tool_use", "", id, name, input, NoResult, <<>>) :
     id \in EventIds, name \in ToolNames, input \in ToolInputs}
OldToolResultEvents ==
  {Event("tool_result", "", id, "", "", StrResult(t), <<>>) :
     id \in EventIds, t \in {ShortText, LongText}}
OtherEvents == {Event("system", "", "", "", "", NoResult, <<>>)}

Events ==
  TextEvents \cup ToolUseEvents \cup ToolResultEvents \cup OldToolUseEvents
    \cup OldToolResultEvents \cup OtherEvents

EventLists == UNION {[1..n -> Events] : n \in 0..MaxEvents}

\* "\n".join(text_parts) of a list, the string itself otherwise
ResultText(r) ==
  IF r.form = "list" THEN r.parts[1] \o <<Run("pad", 1)>> \o r.parts[2] ELSE r.parts[1]

\* A variant that registers no tool use.
RegisterNever(tool_uses, id, name, input) == tool_uses

\* if tool_id: tool_uses[tool_id] = {"tool": tool_name, "input": tool_input}
Register(tool_uses, id, name, input) ==
  IF id # "" THEN [tool_uses EXCEPT ![id] = [tool |-> name, input |-> input]]
  ELSE tool_uses

\* Mutant of ToolStep: the step never carries what is registered.
ToolStepUnknown(tool_uses, id, text) ==
  [type |-> "tool", tool |-> "Unknown", input |-> "{}",
   result |-> Capped(text, MAX_CONTENT_LENGTH, <<Dots>>)]

\* Mutant of Emit: the step is put in front of the list.
EmitFirst(steps, step) == <<step>> \o steps

\* steps.append(step)
Emit(steps, step) == Append(steps, step)

\* tool_info = tool_uses.get(tool_id, {}) and the step built from it:
\* the tool is "Unknown" and the input {} where nothing is registered.
ToolStep(tool_uses, id, text) ==
  LET tool_info == tool_uses[id]
      known == tool_info # NoToolUse
  IN  [type |-> "tool",
       tool |-> IF known THEN tool_info.tool ELSE "Unknown",
       input |-> IF known THEN tool_info.input ELSE "{}",
       result |-> Capped(text, MAX_CONTENT_LENGTH, <<Dots>>)]

AtEvent(type) ==
  /\ xcall.pc = "loop"
  /\ xcall.pos <= Len(xcall.events)
  /\ xcall.events[xcall.pos].type = type

\* event_type == "assistant": a text that is not empty is a response step,
\* a tool use is registered under its identifier.
ProcessAssistant ==
  /\ AtEvent("assistant")
  /\ LET e == xcall.events[xcall.pos]
     IN  xcall' = [xcall EXCEPT
           !.steps = IF e.item = "text" /\ e.text # <<>>
                       THEN Emit(@, [type |-> "response", content |-> e.text])
                       ELSE @,
           !.tool_uses = IF e.item = "tool_use" THEN Register(@, e.id, e.name, e.input)
                         ELSE @,
           !.pos = @ + 1]
  /\ UNCHANGED <<lockVars, hookVars, fnVars, pathVars, textVars>>

\* event_type == "user": a tool result is a tool step.
ProcessUser ==
  /\ AtEvent("user")
  /\ LET e == xcall.events[xcall.pos]
     IN  xcall' = [xcall EXCEPT
           !.steps = IF e.item = "tool_result"
                       THEN Emit(@, ToolStep(xcall.tool_uses, e.id, ResultText(e.result)))
                       ELSE @,
           !.pos = @ + 1]
  /\ UNCHANGED <<lockVars, hookVars, fnVars, pathVars, textVars>>

\* event_type == "tool_result" (old format)
ProcessToolResult ==
  /\ AtEvent("tool_result")
  /\ LET e == xcall.events[xcall.pos]
     IN  xcall' = [xcall EXCEPT
           !.steps = Emit(@, ToolStep(xcall.tool_uses, e.id, e.result.parts[1])),
           !.pos = @ + 1]
  /\ UNCHANGED <<lockVars, hookVars, fnVars, pathVars, textVars>>

\* event_type == "tool_use" (old format)
ProcessToolUse ==
  /\ AtEvent("tool_use")
  /\ LET e == xcall.events[xcall.pos]
     IN  xcall' = [xcall EXCEPT !.tool_uses = Register(@, e.id, e.name, e.input),
                                !.pos = @ + 1]
  /\ UNCHANGED <<lockVars, hookVars, fnVars, pathVars, textVars>>

\* An event of another type is passed over.
SkipEvent ==
  /\ xcall.pc = "loop"
  /\ xcall.pos <= Len(xcall.events)
  /\ xcall.events[xcall.pos].type \notin {"assistant", "user", "tool_result", "tool_use"}
  /\ xcall' = [xcall EXCEPT !.pos = @ + 1]
  /\ UNCHANGED <<lockVars, hookVars, fnVars, pathVars, textVars>>

\* return steps
ReturnSteps ==
  /\ xcall.pc = "loop"
  /\ xcall.pos > Len(xcall.events)
  /\ xcall' = [xcall EXCEPT !.pc = "returned"]
  /\ UNCHANGED <<lockVars, hookVars, fnVars, pathVars, textVars>>

InitSteps ==
  /\ LockIdle
  /\ FnsIdle
  /\ HooksIdle
  /\ PathsIdle
  /\ TextsIdle
  /\ \E events \in EventLists :
       xcall = [NoExtract EXCEPT !.pc = "loop", !.events = events, !.pos = 1]

NextSteps ==
  \/ ProcessAssistant
  \/ ProcessUser
  \/ ProcessToolResult
  \/ ProcessToolUse
  \/ SkipEvent
  \/ ReturnSteps

SpecSteps == InitSteps /\ [][NextSteps]_vars

(***************************************************************************)
(* Claims about the extraction                                             *)
(***************************************************************************)

\* The list of events is an assistant event with one tool use followed by a
\* user event with a tool result for the same identifier.
UseThenResult(events) ==
  /\ Len(events) = 2
  /\ events[1].type = "assistant" /\ events[1].item = "tool_use"
  /\ events[2].type = "user" /\ events[2].item = "tool_result"
  /\ events[2].id = events[1].id

\* C20: for an assistant event with one tool use (identifier i, name X,
\* input I) followed by a user event with a tool result for i,
\* extract_execution_steps returns exactly one step; it has type tool, the
\* tool name X and the input I.
C20_OneToolStep ==
  (xcall.pc = "returned" /\ UseThenResult(xcall.events)) =>
    /\ Len(xcall.steps) = 1
    /\ xcall.steps[1].type = "tool"
    /\ xcall.steps[1].tool = xcall.events[1].name
    /\ xcall.steps[1].input = xcall.events[1].input


\* C20, for an identifier that is not empty: the one step has type tool,
\* the tool name X and the input I.
C20_OneToolStepForId ==
  (/\ xcall.pc = "returned"
   /\ UseThenResult(xcall.events)
   /\ xcall.events[1].id # "") =>
    /\ Len(xcall.steps) = 1
    /\ xcall.steps[1].type = "tool"
    /\ xcall.steps[1].tool = xcall.events[1].name
    /\ xcall.steps[1].input = xcall.events[1].input

\* A tool use with an identifier and an input, then its result, have been
\* processed and the steps returned.
C20_Witness ==
  /\ xcall.pc = "returned"
  /\ UseThenResult(xcall.events)
  /\ xcall.events[1].id = "a"
  /\ xcall.events[1].name = "Bash"
  /\ xcall.events[1].input = "{file_path}"
  /\ Len(xcall.steps) = 1
  /\ xcall.steps[1].tool = "Bash"


(***************************************************************************)
(* Further claims about FileLock                                           *)
(***************************************************************************)
\* Process p takes the step of its program that leads from control point
\* from to control point to.
Goes(p, from, to) == pc[p] = from /\ pc'[p] = to

\* C26: of the processes that find a lock file stale only one renames it
\* away; no process renames a lock file that was created after the stale
\* file was removed.  Every file that is renamed is the stale one.
C26_OnlyStaleRenamed ==
  [][\A p \in Procs :
       Goes(p, "rename", "unlink_stale") => IsStale(lock[PathOf(p)])]_vars

\* C27: the staleness check is part of every failed creation attempt: when
\* creation fails on a lock file older than 60 s the acquirer goes on to
\* rename and delete it on that attempt; it sleeps only for a file that is
\* not stale.
C27_StaleCheckedOnEveryAttempt ==
  [][\A p \in Procs :
       (/\ pc[p] = "create"
        /\ lock[PathOf(p)].exists
        /\ IsStale(lock[PathOf(p)])) => pc'[p] # "sleep"]_vars

\* C28: release removes a lock file only if the releasing handle created
\* it: the unlink of a process leaves the lock file of another one in
\* place.
C28_ReleaseKeepsForeignFile ==
  [][\A p \in Procs :
       (/\ pc[p] = "rel_unlink" /\ pc'[p] # "rel_unlink"
        /\ lock[PathOf(p)].exists
        /\ lock[PathOf(p)].owner # p) => lock'[PathOf(p)] = lock[PathOf(p)]]_vars

(***************************************************************************)
(* Further claims about load_session_entries                               *)
(***************************************************************************)
\* The reader r is in a pass over the index: it acquires the lock, or holds
\* it and reads.
InPass(r) == pc[r] \in AcquirePcs \cup HoldPcs \cup {"rel_close", "rel_unlink"}

\* The number of the pass the reader r is in: attempt counts from 0.
PassNo(r) == attempt[r] + 1

\* C29 as claimed: at most max_retries passes (lock acquisitions).
C29_AtMostMaxRetriesPasses ==
  \A r \in Readers : InPass(r) => PassNo(r) <= max_retries

\* C29: load_session_entries makes at most max_retries + 1 passes (lock
\* acquisitions) before it returns, whatever the writers do.
C29_AtMostOneMorePass ==
  \A r \in Readers : PassNo(r) <= max_retries + 1

\* The reader is in the pass after the last retry.
C29_Witness ==
  \E r \in Readers : pc[r] = "r_read" /\ PassNo(r) = max_retries + 1

\* C30: load_session_entries returns before its last pass exactly when a
\* pass has found a number of matching entries that is not 0 and equals the
\* number the previous counted pass recorded; a pass that finds none, and
\* the first pass, are followed by another pass while passes remain.
C30_StabilizationRule ==
  [][\A r \in Readers :
       /\ (pc[r] # "returned" /\ pc'[r] = "returned" /\ attempt[r] < max_retries) =>
            /\ pc[r] = "r_after"
            /\ exc[r] = "none"
            /\ Len(entries[r]) > 0
            /\ Len(entries[r]) = last_count[r]
       /\ (/\ pc[r] = "r_after" /\ pc'[r] # "r_after"
           /\ exc[r] = "none"
           /\ Len(entries[r]) > 0
           /\ Len(entries[r]) = last_count[r]) => pc'[r] = "returned"
       /\ (/\ pc[r] = "r_after" /\ pc'[r] # "r_after"
           /\ attempt[r] < max_retries
           /\ (Len(entries[r]) = 0 \/ last_count[r] = -1)) =>
            /\ pc'[r] = "r_exists"
            /\ attempt'[r] = attempt[r] + 1]_vars

\* The reader has returned early with the entries of a stable count.
C30_Witness ==
  \E r \in Readers :
    /\ pc[r] = "returned"
    /\ attempt[r] < max_retries
    /\ Len(entries[r]) > 0
    /\ Len(entries[r]) = last_count[r]

\* The lines of the file that belong to the session the reader r asked for.
WrittenFor(r) == SelectSeq(index, LAMBDA line : line.session = sess[r])

\* C31: the stabilization does not wait for the writers: what
\* load_session_entries returns is the matching entries of its last pass, a
\* prefix of the matching lines of the file, and it can be a proper prefix
\* after two passes with the same count that is not 0.
C31_ReturnedIsSnapshot ==
  \A r \in Readers : pc[r] = "returned" => IsPrefix(entries[r], WrittenFor(r))

\* The reader has returned on two equal counts, and a writer has appended
\* an entry of the reader's session since.
C31_Witness ==
  \E r \in Readers :
    /\ pc[r] = "returned"
    /\ attempt[r] < max_retries
    /\ Len(entries[r]) > 0
    /\ Len(entries[r]) = last_count[r]
    /\ Len(entries[r]) < Len(WrittenFor(r))

\* C32: load_session_entries does not return fewer entries than the count
\* an earlier pass of the same call recorded, whatever happens in a later
\* pass.
C32_NoFewerThanObserved ==
  [][\A r \in Readers :
       (pc[r] # "returned" /\ pc'[r] = "returned") => Len(entries[r]) >= last_count[r]]_vars

(***************************************************************************)
(* Two start handlers on the session cache                                 *)
(***************************************************************************)
\* Two task-logger processes that handle PreToolUse events at a time.
StartHandlers == {"h1", "h2"}

InitCache ==
  /\ LockIdle
  /\ FnsIdle
  /\ PathsIdle
  /\ TextsIdle
  /\ StepsIdle
  /\ now = 0
  /\ cacheFile \in {EmptyCache} \cup {[EmptyCache EXCEPT ![k] = Unparsable] : k \in CacheKeys}
  /\ hpc = [h \in StartHandlers |-> "idle"]
  /\ hin = [h \in StartHandlers |-> NoInput]
  /\ hcache = [h \in StartHandlers |-> EmptyCache]
  /\ hout = [h \in StartHandlers |-> NoOutcome]

NextCache ==
  \/ \E h \in StartHandlers, i \in StartInputs : HStart(h, i)
  \/ \E h \in StartHandlers : Main(h)
  \/ \E h \in StartHandlers : StartLoad(h)
  \/ \E h \in StartHandlers : StartSave(h)
  \/ \E d \in ClockSteps : ClockTick(d)

SpecCache == InitCache /\ [][NextCache]_vars

\* The key of the event that the handler h handles.
KeyOf(h) == CacheKey(hin[h].session, hin[h].tool)

\* The handler h leaves save_session_cache, and the file has been written.
Saves(h) == hpc[h] = "start_save" /\ hpc'[h] = "exited" /\ hout'[h].timeouts = hout[h].timeouts

\* C33: the load and the save of a start handler are two critical sections
\* and the save writes the handler's own mapping: a key that another
\* process has put into the file since the load is not in the file after
\* the save.
C33_LastSaveWins ==
  [][\A h \in StartHandlers :
       Saves(h) => \A k \in CacheKeys \ {KeyOf(h)} :
                     hcache[h][k] = NoEntry => cacheFile'[k] = NoEntry]_vars

\* Both handlers have loaded and saved under the lock, for different keys
\* and within the same hour, and the file holds the key of one only.
C33_Witness ==
  /\ now = 0
  /\ \A h \in StartHandlers : hpc[h] = "exited" /\ hin[h].todo /\ hout[h].timeouts = 0
  /\ \A k \in CacheKeys : cacheFile[k] # Unparsable
  /\ KeyOf("h1") # KeyOf("h2")
  /\ cacheFile[KeyOf("h1")] = NoEntry
  /\ cacheFile[KeyOf("h2")] # NoEntry

\* C34: in handle_pre_tool_use the expired entries are removed before the
\* new entry is added: the mapping after the cleanup holds only entries
\* less than 24 hours old, and the mapping that is saved holds, besides the
\* new key, these entries and no other.
C34_CleanedBeforeAdded ==
  [][\A h \in StartHandlers :
       /\ (hpc[h] = "start_load" /\ hpc'[h] # "start_load") =>
            \A k \in CacheKeys :
              hcache'[h][k] # NoEntry => (hcache'[h][k] # Unparsable /\ now - hcache'[h][k] < 24)
       /\ Saves(h) => \A k \in CacheKeys \ {KeyOf(h)} : cacheFile'[k] = hcache[h][k]]_vars

\* A start handler has saved the cache without an entry of the file that
\* was 24 hours old or older, and with one that was younger.
C34_Witness ==
  \E h \in StartHandlers :
    /\ hpc[h] = "exited" /\ hin[h].todo /\ hout[h].timeouts = 0
    /\ now >= 24
    /\ cacheFile[KeyOf(h)] = now
    /\ \E k \in CacheKeys \ {KeyOf(h)} : cacheFile[k] = NoEntry
    /\ \E g \in StartHandlers \ {h} :
         hpc[g] = "exited" /\ hin[g].todo /\ hout[g].timeouts = 0 /\ KeyOf(g) # KeyOf(h)

(***************************************************************************)
(* The final response of a list of steps (get_final_response)              *)
(***************************************************************************)
\* The longest list of steps.
MaxSteps == 3

\* The text returned when the loop finds nothing; the code's literal is the
\* Japanese for "(no response)".
NO_RESPONSE == "(no response)"

\* The value of a key that a step does not have.
Missing == "<missing>"

\* The texts of the assistant; a text can be any string, the text of
\* NO_RESPONSE included.
ResponseTexts == {"ok", "done", NO_RESPONSE}

\* A tool step has the keys type, tool, input and result, and no content.
AToolStep == [type |-> "tool", content |-> Missing]

ResponseSteps == {[type |-> "response", content |-> t] : t \in ResponseTexts}

StepLists == UNION {[1..n -> {AToolStep} \cup ResponseSteps] : n \in 0..MaxSteps}

\* step.get("content", "")
ContentOf(step) == IF step.content = Missing THEN "" ELSE step.content

\* Mutant of IsResponse: every step is taken for a response.
IsAnyStep(step) == TRUE

\* step.get("type") == "response"
IsResponse(step) == step.type = "response"

\* Mutant of reversed: the steps in their own order.
forwards(s) == s

\* reversed(steps)
reversed(s) == [j \in 1..Len(s) |-> s[Len(s) + 1 - j]]

\* The step the loop is at.
FinalAt == reversed(fcall.steps)[fcall.i]

\* for step in reversed(steps): the step is no response, the loop goes on.
FinalSkip ==
  /\ fcall.pc = "loop"
  /\ fcall.i <= Len(fcall.steps)
  /\ ~IsResponse(FinalAt)
  /\ fcall' = [fcall EXCEPT !.i = @ + 1]
  /\ UNCHANGED <<fnFrame, ncall, lcall, acall>>

\* if step.get("type") == "response": return step.get("content", "")
FinalFound ==
  /\ fcall.pc = "loop"
  /\ fcall.i <= Len(fcall.steps)
  /\ IsResponse(FinalAt)
  /\ fcall' = [fcall EXCEPT !.pc = "returned", !.result = ContentOf(FinalAt)]
  /\ UNCHANGED <<fnFrame, ncall, lcall, acall>>

\* The loop is over: return "(no response)".
FinalNone ==
  /\ fcall.pc = "loop"
  /\ fcall.i > Len(fcall.steps)
  /\ fcall' = [fcall EXCEPT !.pc = "returned", !.result = NO_RESPONSE]
  /\ UNCHANGED <<fnFrame, ncall, lcall, acall>>

InitFinal ==
  /\ LockIdle
  /\ HooksIdle
  /\ PathsIdle
  /\ TextsIdle
  /\ StepsIdle
  /\ ncall = NoSanitize
  /\ lcall = NoRead
  /\ acall = NoAnalysis
  /\ \E steps \in StepLists : fcall = [NoFinal EXCEPT !.pc = "loop", !.steps = steps, !.i = 1]

NextFinal ==
  \/ FinalSkip
  \/ FinalFound
  \/ FinalNone

SpecFinal == InitFinal /\ [][NextFinal]_vars

\* The indices of the response steps of a list.
ResponseIndices(steps) == {k \in 1..Len(steps) : steps[k].type = "response"}

\* The greatest of a non-empty set of indices.
Greatest(S) == CHOOSE k \in S : \A j \in S : j <= k

\* C21, as stated: get_final_response returns the content of the response
\* step with the greatest index, and it returns the "(no response)" text if
\* and only if the list has no response step.
C21_SentinelIffNoResponse ==
  fcall.pc = "returned" =>
    /\ ResponseIndices(fcall.steps) # {} =>
         fcall.result = fcall.steps[Greatest(ResponseIndices(fcall.steps))].content
    /\ fcall.result = NO_RESPONSE <=> ResponseIndices(fcall.steps) = {}

\* C21, amended: get_final_response returns the content of the response step
\* with the greatest index, and the "(no response)" text when the list has
\* no response step; the result is that text if and only if there is no
\* response step or the last response step has that text as its content.
C21_LastResponseOrSentinel ==
  fcall.pc = "returned" =>
    LET R == ResponseIndices(fcall.steps) IN
      /\ R # {} => fcall.result = fcall.steps[Greatest(R)].content
      /\ R = {} => fcall.result = NO_RESPONSE
      /\ fcall.result = NO_RESPONSE <=>
           (R = {} \/ fcall.steps[Greatest(R)].content = NO_RESPONSE)

\* Two responses with different texts and a tool step after them: the text
\* of the second response is returned.
C21_Witness ==
  /\ fcall.pc = "returned"
  /\ Len(fcall.steps) = 3
  /\ fcall.steps[1].type = "response"
  /\ fcall.steps[2].type = "response"
  /\ fcall.steps[3].type = "tool"
  /\ fcall.steps[1].content # fcall.steps[2].content
  /\ fcall.result = fcall.steps[2].content

\* C22, as stated: for every list of steps whose last step is a tool step,
\* get_final_response returns the "(no response)" text.
C22_SentinelWhenLastIsTool ==
  (fcall.pc = "returned" /\ fcall.steps # <<>> /\ fcall.steps[Len(fcall.steps)].type = "tool")
    => fcall.result = NO_RESPONSE

\* C22, amended: for every list of steps that holds tool steps only,
\* get_final_response returns the "(no response)" text.
C22_SentinelWhenOnlyTools ==
  (fcall.pc = "returned" /\ \A k \in 1..Len(fcall.steps) : fcall.steps[k].type = "tool")
    => fcall.result = NO_RESPONSE

\* A list of tool steps has been searched to its end.
C22_Witness ==
  /\ fcall.pc = "returned"
  /\ Len(fcall.steps) >= 2
  /\ \A k \in 1..Len(fcall.steps) : fcall.steps[k].type = "tool"
  /\ fcall.i = Len(fcall.steps) + 1
  /\ fcall.result = NO_RESPONSE

(***************************************************************************)
(* The name of a subagent as a part of a file name (sanitize_filename)     *)
(*                                                                         *)
(* A name is a sequence of characters.  The characters are one or two of   *)
(* every class the function tells apart, and "<e-acute>" stands for a      *)
(* letter outside ASCII.                                                   *)
(***************************************************************************)
\* The longest name of which every combination of characters is tried.
MaxNameLen == 3

\* sanitized[:50]
NameCap == 50

AsciiLetters == {"a", "c", "d", "e", "k", "n", "o", "p", "s", "t", "u", "w", "Z"}
AsciiDigits == {"7"}

\* The characters of the names that are tried.
NameChars == {"a", "Z", "7", "-", "_", ".", "/", "<e-acute>"}

\* n times the character c.
Rep(c, n) == [j \in 1..n |-> c]

ShortNames == UNION {[1..n -> NameChars] : n \in 0..MaxNameLen}

\* Names around the cap: one character repeated, and letters and slashes
\* in turn.
LongNames ==
  {Rep(c, n) \o t : c \in {"a", "/", "."}, n \in {NameCap - 1, NameCap, NameCap + 1},
                    t \in {<<>>, <<"a">>, <<"/">>}}
    \cup {[j \in 1..(NameCap + 10) |-> IF j % 2 = 1 THEN "a" ELSE "/"]}

\* "../../etc/passwd"
TraversalName ==
  <<".", ".", "/", ".", ".", "/", "e", "t", "c", "/", "p", "a", "s", "s", "w", "d">>

Names == ShortNames \cup LongNames \cup {TraversalName}

\* The characters outside the class [^a-zA-Z0-9_-].
Kept(c) == c \in AsciiLetters \cup AsciiDigits \cup {"_", "-"}

\* re.sub(r'[^a-zA-Z0-9_-]', '_', name)
Substitute(name) == [j \in 1..Len(name) |-> IF Kept(name[j]) THEN name[j] ELSE "_"]

\* sanitized.lstrip('.')
RECURSIVE lstrip(_)
lstrip(t) == IF t # <<>> /\ Head(t) = "." THEN lstrip(Tail(t)) ELSE t

\* re.sub(r'_+', '_', sanitized)
RECURSIVE Collapse(_)
Collapse(t) ==
  IF Len(t) < 2 THEN t
  ELSE IF t[1] = "_" /\ t[2] = "_" THEN Collapse(Tail(t))
  ELSE <<t[1]>> \o Collapse(Tail(t))

\* "unknown"
Unknown == <<"u", "n", "k", "n", "o", "w", "n">>

\* Mutant of CutOrUnknown: the cut without the default.
CutOnly(t) == SubSeq(t, 1, Min(NameCap, Len(t)))

\* sanitized[:50] or "unknown"
CutOrUnknown(t) ==
  IF SubSeq(t, 1, Min(NameCap, Len(t))) = <<>> THEN Unknown
  ELSE SubSeq(t, 1, Min(NameCap, Len(t)))

\* One statement of sanitize_filename.
SanStep(from, to, t) ==
  /\ ncall.pc = from
  /\ ncall' = [ncall EXCEPT !.pc = to, !.sanitized = t]
  /\ UNCHANGED <<fnFrame, fcall, lcall, acall>>

SanSubstitute == SanStep("called", "substituted", Substitute(ncall.name))
SanStrip == SanStep("substituted", "stripped", lstrip(ncall.sanitized))
SanCollapse == SanStep("stripped", "collapsed", Collapse(ncall.sanitized))
SanReturn == SanStep("collapsed", "returned", CutOrUnknown(ncall.sanitized))

InitSanitize ==
  /\ LockIdle
  /\ HooksIdle
  /\ PathsIdle
  /\ TextsIdle
  /\ StepsIdle
  /\ fcall = NoFinal
  /\ lcall = NoRead
  /\ acall = NoAnalysis
  /\ \E name \in Names : ncall = [NoSanitize EXCEPT !.pc = "called", !.name = name]

NextSanitize ==
  \/ SanSubstitute
  \/ SanStrip
  \/ SanCollapse
  \/ SanReturn

SpecSanitize == InitSanitize /\ [][NextSanitize]_vars

\* C25: for every name, sanitize_filename returns a non-empty string of at
\* most 50 characters, all of them ASCII letters, digits, hyphens or
\* underscores; for "../../etc/passwd" the result holds no "." and no "/"
\* and does not begin with a dot.
C25_SafeFileName ==
  ncall.pc = "returned" =>
    /\ ncall.sanitized # <<>>
    /\ Len(ncall.sanitized) <= 50
    /\ \A j \in 1..Len(ncall.sanitized) :
         ncall.sanitized[j] \in AsciiLetters \cup AsciiDigits \cup {"-", "_"}
    /\ ncall.name = TraversalName =>
         /\ \A j \in 1..Len(ncall.sanitized) : ncall.sanitized[j] \notin {".", "/"}
         /\ Head(ncall.sanitized) # "."

\* "../../etc/passwd" has become "_etc_passwd".
C25_Witness ==
  /\ ncall.pc = "returned"
  /\ ncall.name = TraversalName
  /\ ncall.sanitized = <<"_", "e", "t", "c", "_", "p", "a", "s", "s", "w", "d">>

(***************************************************************************)
(* The analyzer's run on a transcript file of some size                    *)
(* (main and parse_transcript of transcript-analyzer.py)                   *)
(***************************************************************************)
\* The greatest number of events in a transcript file.
MaxFileEvents == 2

MAX_FILE_SIZE_MB == 10

\* 1024 * 1024
BytesPerMB == 1048576

\* The sizes of the transcript files, in bytes: around the cap.
FileSizes ==
  {0, 1, MAX_FILE_SIZE_MB * BytesPerMB - 1, MAX_FILE_SIZE_MB * BytesPerMB,
   MAX_FILE_SIZE_MB * BytesPerMB + 1, (MAX_FILE_SIZE_MB + 1) * BytesPerMB}

\* Mutant of TooLarge: no file is too large.
TooLargeNever(size) == FALSE

\* os.path.getsize(expanded_path) / (1024 * 1024) > MAX_FILE_SIZE_MB; the
\* division by a power of two is exact.
TooLarge(size) == size > MAX_FILE_SIZE_MB * BytesPerMB

\* One step of the run that changes the fields in r.
AnStep(r) ==
  /\ acall' = r
  /\ UNCHANGED <<fnFrame, fcall, ncall, lcall>>

\* parse_transcript returns events.
Parsed(n) == [acall EXCEPT !.pc = "parsed", !.events = n]

\* if not is_safe_path(expanded_path, allowed_prefixes): return events
AnCheckPath ==
  /\ acall.pc = "parse"
  /\ AnStep(IF acall.safe THEN [acall EXCEPT !.pc = "exists"] ELSE Parsed(0))

\* if not os.path.exists(expanded_path): return events
AnExists ==
  /\ acall.pc = "exists"
  /\ AnStep(IF acall.exists THEN [acall EXCEPT !.pc = "getsize"] ELSE Parsed(0))

\* The size check: a file above the cap returns the empty list.
AnGetSize ==
  /\ acall.pc = "getsize"
  /\ AnStep(IF TooLarge(acall.size) THEN Parsed(0) ELSE [acall EXCEPT !.pc = "read"])

\* os.path.getsize raises OSError (the file has gone since exists()):
\* except OSError: pass.
AnGetSizeFails ==
  /\ acall.pc = "getsize"
  /\ AnStep([acall EXCEPT !.pc = "read", !.exists = FALSE])

\* The lines are read: one event for every line that parses; open() of a
\* file that has gone raises OSError, which leaves events empty.
AnRead ==
  /\ acall.pc = "read"
  /\ AnStep(Parsed(IF acall.exists THEN acall.lines ELSE 0))

\* The read raises something else than OSError and json.JSONDecodeError,
\* which nothing catches: the process ends with a traceback.
AnReadRaises ==
  /\ acall.pc = "read"
  /\ acall.exists
  /\ acall.size > 0
  /\ AnStep([acall EXCEPT !.pc = "exited", !.exit = 1])

\* if not events: return 0
AnEmpty ==
  /\ acall.pc = "parsed"
  /\ acall.events = 0
  /\ AnStep([acall EXCEPT !.pc = "exited", !.exit = 0])

\* steps = extract_execution_steps(events): not every event makes a step.
AnExtract ==
  /\ acall.pc = "parsed"
  /\ acall.events > 0
  /\ \E n \in 0..acall.events : AnStep([acall EXCEPT !.pc = "extracted", !.steps = n])

\* log_file = write_markdown_log(...): the path of the file, or "" when the
\* write failed.
AnWriteLog ==
  /\ acall.pc = "extracted"
  /\ \E log \in {"written", "failed"} : AnStep([acall EXCEPT !.pc = "logged", !.log = log])

\* os.makedirs(log_dir, exist_ok=True) of write_markdown_log raises OSError,
\* outside every try statement: the process ends with a traceback.
AnWriteLogRaises ==
  /\ acall.pc = "extracted"
  /\ AnStep([acall EXCEPT !.pc = "exited", !.exit = 1])

\* Mutant of LogFileGiven: the index is written whatever became of the log.
LogFileAny(log) == TRUE

\* if log_file: the path that write_markdown_log returned is not "".
LogFileGiven(log) == log = "written"

\* if log_file: write_index_entry(...), which appends the entry or gives up
\* with a warning.
AnWriteIndex ==
  /\ acall.pc = "logged"
  /\ LogFileGiven(acall.log)
  /\ \E ok \in BOOLEAN : AnStep([acall EXCEPT !.pc = "indexed", !.index = ok])

\* return 0
AnReturn ==
  /\ \/ acall.pc = "indexed"
     \/ acall.pc = "logged" /\ ~LogFileGiven(acall.log)
  /\ AnStep([acall EXCEPT !.pc = "exited", !.exit = 0])

InitAnalysis ==
  /\ LockIdle
  /\ HooksIdle
  /\ PathsIdle
  /\ TextsIdle
  /\ StepsIdle
  /\ fcall = NoFinal
  /\ ncall = NoSanitize
  /\ lcall = NoRead
  /\ \E safe \in BOOLEAN, exists \in BOOLEAN, size \in FileSizes, lines \in 0..MaxFileEvents :
       /\ lines <= size
       /\ ~exists => size = 0
       /\ acall = [NoAnalysis EXCEPT !.pc = "parse", !.safe = safe, !.exists = exists,
                                     !.size = size, !.lines = lines]

NextAnalysis ==
  \/ AnCheckPath
  \/ AnExists
  \/ AnGetSize
  \/ AnGetSizeFails
  \/ AnRead
  \/ AnReadRaises
  \/ AnEmpty
  \/ AnExtract
  \/ AnWriteLog
  \/ AnWriteLogRaises
  \/ AnWriteIndex
  \/ AnReturn

SpecAnalysis == InitAnalysis /\ [][NextAnalysis]_vars

\* The transcript is there and holds more than 10 MB.
Oversize == acall.exists /\ acall.size > 10 * 1024 * 1024

\* C23: on a transcript file of more than 10 MB parse_transcript returns the
\* empty list; the analyzer extracts no step, writes no log file and no
\* index entry, and exits with the code 0.
C23_OversizeSkipped ==
  Oversize =>
    /\ acall.events = 0
    /\ acall.steps = 0
    /\ acall.log = "none"
    /\ ~acall.index
    /\ acall.pc \notin {"read", "extracted", "logged", "indexed"}
    /\ acall.pc = "exited" => acall.exit = 0

\* The analyzer has exited on a transcript of one byte more than 10 MB that
\* holds events.
C23_Witness ==
  /\ Oversize
  /\ acall.safe
  /\ acall.size = 10485761
  /\ acall.lines > 0
  /\ acall.pc = "exited"
  /\ acall.exit = 0

(***************************************************************************)
(* The readers of the line-delimited files                                 *)
(*                                                                         *)
(* A file is a sequence of lines, and a line is one of the kinds the       *)
(* readers tell apart.  The files are shorter than the buffer of the text  *)
(* layer, which decodes a whole file before the loop gets its first line.  *)
(***************************************************************************)
\* The greatest number of lines of a file.
MaxLines == 3

LineReaders == {"parse_transcript", "extract_task_info_from_transcript",
                "load_session_entries", "load_user_prompts"}

\* "match": a JSON object that the reader collects (an event, a Task call,
\*          an entry of the session asked for);
\* "other": a JSON object that only parse_transcript collects;
\* "scalar": JSON that is no object, as 42;
\* "blank": nothing but white space;
\* "garbage": no JSON (json.JSONDecodeError);
\* "deep": JSON nested deeper than the parser goes (RecursionError);
\* "undecodable": bytes that are no UTF-8 (UnicodeDecodeError).
LineKinds == {"match", "other", "scalar", "blank", "garbage", "deep", "undecodable"}

\* The lines that fail to parse.
FailingKinds == {"garbage", "deep", "undecodable"}

LineFiles == UNION {[1..n -> LineKinds] : n \in 0..MaxLines}

\* What the body of the loop does with a line: "skip" (continue), "collect"
\* (append) or the exception that leaves the inner try statement, which
\* catches json.JSONDecodeError only.
LineOutcome(fn, kind) ==
  CASE kind = "blank" -> "skip"
    [] kind = "garbage" -> "skip"
    [] kind = "deep" -> "RecursionError"
    [] kind = "match" -> "collect"
    [] kind = "other" -> IF fn = "parse_transcript" THEN "collect" ELSE "skip"
    [] kind = "scalar" -> IF fn = "parse_transcript" THEN "collect" ELSE "AttributeError"
    [] OTHER -> "skip"

\* Where an exception of the loop goes: extract_task_info_from_transcript
\* catches Exception and returns (None, ""); the others catch OSError (and
\* TimeoutError) only, and the exception leaves the function.
Abort(fn, e) ==
  IF fn = "extract_task_info_from_transcript"
  THEN [returned |-> <<>>, raised |-> "none"]
  ELSE [returned |-> <<>>, raised |-> e]

MAX_EVENTS == 1000

\* if i >= MAX_EVENTS: break, in parse_transcript, where i = pos - 1 counts
\* the lines from 0.
AtCap(fn, pos) == fn = "parse_transcript" /\ pos - 1 >= MAX_EVENTS

\* The loop from the line at pos on; what is collected is written as the
\* numbers of the lines.
RECURSIVE ReadFrom(_, _, _, _)
ReadFrom(fn, lines, pos, collected) ==
  IF pos > Len(lines) \/ AtCap(fn, pos) THEN [returned |-> collected, raised |-> "none"]
  ELSE LET o == LineOutcome(fn, lines[pos]) IN
    IF o = "skip" THEN ReadFrom(fn, lines, pos + 1, collected)
    ELSE IF o = "collect" THEN ReadFrom(fn, lines, pos + 1, Append(collected, pos))
    ELSE Abort(fn, o)

\* The file cannot be decoded.
Undecodable(lines) == \E j \in 1..Len(lines) : lines[j] = "undecodable"

\* What a reader makes of a file.
ReadFile(fn, lines) ==
  IF Undecodable(lines) THEN Abort(fn, "UnicodeDecodeError") ELSE ReadFrom(fn, lines, 1, <<>>)

\* The reader is left with the outcome o.
ReadDone(o) ==
  /\ lcall' = [lcall EXCEPT !.pc = "done", !.returned = o.returned, !.raised = o.raised]
  /\ UNCHANGED <<fnFrame, fcall, ncall, acall>>

\* with open(path, "r", encoding="utf-8") as f: for line in f: the first
\* line is asked for and the file is decoded.
ReadOpen ==
  /\ lcall.pc = "open"
  /\ IF Undecodable(lcall.lines)
     THEN ReadDone(Abort(lcall.fn, "UnicodeDecodeError"))
     ELSE /\ lcall' = [lcall EXCEPT !.pc = "loop", !.pos = 1]
          /\ UNCHANGED <<fnFrame, fcall, ncall, acall>>

\* One line is skipped or collected.
ReadLine ==
  /\ lcall.pc = "loop"
  /\ lcall.pos <= Len(lcall.lines)
  /\ ~AtCap(lcall.fn, lcall.pos)
  /\ LET o == LineOutcome(lcall.fn, lcall.lines[lcall.pos]) IN
       /\ o \in {"skip", "collect"}
       /\ lcall' = [lcall EXCEPT !.pos = @ + 1,
                                 !.collected = IF o = "collect" THEN Append(@, lcall.pos) ELSE @]
  /\ UNCHANGED <<fnFrame, fcall, ncall, acall>>

\* One line raises an exception that the inner try statement does not catch.
ReadLineRaises ==
  /\ lcall.pc = "loop"
  /\ lcall.pos <= Len(lcall.lines)
  /\ ~AtCap(lcall.fn, lcall.pos)
  /\ LET o == LineOutcome(lcall.fn, lcall.lines[lcall.pos]) IN
       /\ o \notin {"skip", "collect"}
       /\ ReadDone(Abort(lcall.fn, o))

\* parse_transcript is at the line after the first MAX_EVENTS lines: break,
\* and return events.
ReadCapped ==
  /\ lcall.pc = "loop"
  /\ lcall.pos <= Len(lcall.lines)
  /\ AtCap(lcall.fn, lcall.pos)
  /\ ReadDone([returned |-> lcall.collected, raised |-> "none"])

\* The file is at its end: the reader returns what it has collected.
ReadReturn ==
  /\ lcall.pc = "loop"
  /\ lcall.pos > Len(lcall.lines)
  /\ ReadDone([returned |-> lcall.collected, raised |-> "none"])

InitReaders ==
  /\ LockIdle
  /\ HooksIdle
  /\ PathsIdle
  /\ TextsIdle
  /\ StepsIdle
  /\ fcall = NoFinal
  /\ ncall = NoSanitize
  /\ acall = NoAnalysis
  /\ \E fn \in LineReaders, lines \in LineFiles :
       lcall = [NoRead EXCEPT !.pc = "open", !.fn = fn, !.lines = lines]

NextReaders ==
  \/ ReadOpen
  \/ ReadLine
  \/ ReadLineRaises
  \/ ReadReturn

SpecReaders == InitReaders /\ [][NextReaders]_vars

\* The file with every line that fails to parse replaced by an empty line.
Blanked(lines) ==
  [j \in 1..Len(lines) |-> IF lines[j] \in FailingKinds THEN "blank" ELSE lines[j]]

\* C24: in each of the four readers a line that fails to parse is skipped
\* and does not abort the read: the reader ends as it ends on the file in
\* which the lines that fail to parse are replaced by empty lines.
C24_MalformedLineSkipped ==
  lcall.pc = "done" =>
    /\ lcall.returned = ReadFile(lcall.fn, Blanked(lcall.lines)).returned
    /\ lcall.raised = ReadFile(lcall.fn, Blanked(lcall.lines)).raised

\* C35: the analyzer appends its index entry only after the log file was
\* written: the entry is appended in a step that starts with the log file
\* written, and no entry is appended when the write of the log file failed.
C35_IndexAfterLog ==
  [][/\ (~acall.index /\ acall'.index) => (acall.pc = "logged" /\ acall.log = "written")
     /\ acall.log = "failed" => ~acall'.index]_vars

\* The run has written the log file and then the index entry.
C35_Witness ==
  /\ acall.pc = "exited"
  /\ acall.log = "written"
  /\ acall.index
  /\ acall.exit = 0

(***************************************************************************)
(* Further claims about the extraction                                     *)
(***************************************************************************)
\* The event the loop is at holds a tool result, nested or of the old format.
AtResult ==
  /\ xcall.pc = "loop"
  /\ xcall.pos <= Len(xcall.events)
  /\ \/ xcall.events[xcall.pos].type = "user" /\ xcall.events[xcall.pos].item = "tool_result"
     \/ xcall.events[xcall.pos].type = "tool_result"

\* The identifier of the event the loop is at is that of a tool use
\* registered before.
Buffered == xcall.tool_uses[xcall.events[xcall.pos].id] # NoToolUse

\* The step that the transition has put at the end of the list.
Emitted == xcall'.steps[Len(xcall'.steps)]

\* C36, as stated: a tool step is emitted only for a tool result whose
\* identifier is that of a tool use buffered before, with the name and the
\* input of that tool use; a tool result without such a tool use makes no
\* step.
C36_StepOnlyForBuffered ==
  [][AtResult =>
       IF Buffered
       THEN /\ Len(xcall'.steps) = Len(xcall.steps) + 1
            /\ Emitted.type = "tool"
            /\ Emitted.tool = xcall.tool_uses[xcall.events[xcall.pos].id].tool
            /\ Emitted.input = xcall.tool_uses[xcall.events[xcall.pos].id].input
       ELSE xcall'.steps = xcall.steps]_vars

\* C36, amended: every tool result makes one tool step; the step has the
\* name and the input of the tool use buffered under the identifier of the
\* result, and the name "Unknown" and the input {} when there is none.
C36_StepForEveryResult ==
  [][AtResult =>
       /\ Len(xcall'.steps) = Len(xcall.steps) + 1
       /\ Emitted.type = "tool"
       /\ IF Buffered
          THEN /\ Emitted.tool = xcall.tool_uses[xcall.events[xcall.pos].id].tool
               /\ Emitted.input = xcall.tool_uses[xcall.events[xcall.pos].id].input
          ELSE /\ Emitted.tool = "Unknown"
               /\ Emitted.input = "{}"]_vars

\* A tool use "a" was buffered and a result for "b" has made a step with
\* the name "Unknown".
C36_Witness ==
  /\ xcall.pc = "returned"
  /\ Len(xcall.events) = 2
  /\ xcall.events[1].type = "assistant" /\ xcall.events[1].item = "tool_use"
  /\ xcall.events[1].id = "a"
  /\ xcall.events[2].type = "user" /\ xcall.events[2].item = "tool_result"
  /\ xcall.events[2].id = "b"
  /\ Len(xcall.steps) = 1
  /\ xcall.steps[1].tool = "Unknown"

C39_ResultCapped ==
  \A n \in 1..Len(xcall.steps) :
    xcall.steps[n].type = "tool" => TextLen(xcall.steps[n].result) <= 1000

(***************************************************************************)
(* parse_transcript on files of about MAX_EVENTS lines                     *)
(***************************************************************************)
\* Files of events in which the line q is of the kind k.  They are longer
\* than the buffer of the text layer; all their lines can be decoded.
LongFiles ==
  {[j \in 1..n |-> IF j = q THEN k ELSE "match"] :
     n \in {MAX_EVENTS, MAX_EVENTS + 2},
     q \in {2, MAX_EVENTS + 1},
     k \in {"match", "blank", "garbage", "deep"}}

InitParse ==
  /\ LockIdle
  /\ HooksIdle
  /\ PathsIdle
  /\ TextsIdle
  /\ StepsIdle
  /\ fcall = NoFinal
  /\ ncall = NoSanitize
  /\ acall = NoAnalysis
  /\ \E lines \in LongFiles :
       lcall = [NoRead EXCEPT !.pc = "open", !.fn = "parse_transcript", !.lines = lines]

NextParse ==
  \/ ReadOpen
  \/ ReadLine
  \/ ReadLineRaises
  \/ ReadCapped
  \/ ReadReturn

SpecParse == InitParse /\ [][NextParse]_vars

\* The numbers of the lines among the first n that parse, in their order.
ParsedAmong(lines, n) ==
  SelectSeq([j \in 1..Min(n, Len(lines)) |-> j],
            LAMBDA j : lines[j] \in {"match", "other", "scalar"})

\* C37: parse_transcript looks at the first MAX_EVENTS lines at most and
\* returns those of them that parse, in the order of the file; on a file
\* with more lines it returns that list, not the empty list and no error.
C37_FirstLinesParsed ==
  (lcall.pc = "done" /\ lcall.fn = "parse_transcript") =>
    /\ lcall.raised = "none"
    /\ lcall.returned = ParsedAmong(lcall.lines, 1000)
    /\ Len(lcall.returned) <= 1000

====
